---------------------------- MODULE Spec2Model ----------------------------
(***************************************************************************)
(* Model of the DV pack codec of dv-toolbox-core (crates/dv-toolbox-core/  *)
(* src/pack): header dispatch, per-type decode, validation against the     *)
(* file context, and encode, together with the lookup tables used by the   *)
(* non-linear encodings.                                                   *)
(*                                                                         *)
(* Encoding conventions:                                                   *)
(*   Option<T>      None is <<>>, Some(v) is <<v>>                         *)
(*   Result<T, E>   a record [ok, val, err]                                *)
(*   [u8; 4]        a sequence of four bytes; the u32 of from_le_bytes is  *)
(*                  never materialised, bit i of the word is bit (i % 8)   *)
(*                  of byte (i \div 8) + 1                                 *)
(*   bit enums      their raw integer value                                *)
(***************************************************************************)
EXTENDS Integers, Sequences, FiniteSets, TLC

VARIABLES
    pc,        \* position of the caller in the sequence of calls
    raw,       \* the 5-byte record handed to Pack::from_raw
    ctx,       \* the PackContext handed to Pack::from_raw
    pack,      \* the Pack returned by Pack::from_raw (or built from a value)
    err,       \* the Option<RawError> returned with it
    panicked,  \* whether a call panicked
    encCtx,    \* the PackContext handed to Pack::to_raw
    out,       \* the result of Pack::to_raw
    pack2,     \* the Pack returned by decoding out again
    err2,      \* the Option<RawError> returned with it
    val,       \* a value under conversion: a pack value, a Type, a table value
    code,      \* a raw code: a header byte or a lookup-table index
    tbl,       \* the lookup table in use
    back,      \* the result of converting val back
    thr,       \* per thread: its stack of LazyLock accesses, the reference it
               \* holds and the accesses it has still to make
    once,      \* per lazy static: the state of its one-time initialisation
    cells,     \* per lazy static: the value stored in it
    builds,    \* per lazy static: how many times its initialiser has been entered
    seen       \* per thread: what it read through the reference it obtained

\* the state of the lazily initialised statics
lazyVars == <<thr, once, cells, builds, seen>>

vars == <<pc, raw, ctx, pack, err, panicked, encCtx, out, pack2, err2,
          val, code, tbl, back, lazyVars>>

\* no thread has touched a lazy static
LazyIdle ==
    thr = <<>> /\ once = <<>> /\ cells = <<>> /\ builds = <<>> /\ seen = <<>>

-----------------------------------------------------------------------------
(* Option and Result *)

None == <<>>

Some(v) == <<v>>

IsSome(o) == Len(o) = 1

IsNone(o) == Len(o) = 0

Ok(v) == [ok |-> TRUE, val |-> v, err |-> ""]

Err(msg) == [ok |-> FALSE, val |-> <<>>, err |-> msg]

\* the element of a one-element set; The({f(x) : x \in {e}}) is f at the value
\* of e, a let binding that evaluates e once
The(S) == CHOOSE y \in S : TRUE

-----------------------------------------------------------------------------
(* Bit access on the four payload bytes *)

Pow2(n) == 2 ^ n

\* bit i (0..31) of the little-endian word held in the payload bytes p
Bit(p, i) == (p[(i \div 8) + 1] \div Pow2(i % 8)) % 2

\* bits lo..=hi of the word; every field of every layout lies inside one byte
Bits(p, lo, hi) == (p[(lo \div 8) + 1] \div Pow2(lo % 8)) % Pow2(hi - lo + 1)

\* a field made of scattered bits, least significant bit first
BitList(p, bs) == Bit(p, bs[1]) + 2 * Bit(p, bs[2]) + 4 * Bit(p, bs[3])

-----------------------------------------------------------------------------
(* file::Info and the broadcast system derived from it *)

Sys525_60 == "Sys525_60"

Sys625_50 == "Sys625_50"

\* the two validated file infos the pack tests run under
NTSC ==
    [file_info |-> [file_size |-> 120000, video_frame_rate |-> <<30000, 1001>>,
                    video_duration |-> <<1001, 30000>>,
                    audio_stereo_stream_count |-> 1,
                    audio_sample_rate |-> Some(48000)]]

PAL ==
    [file_info |-> [file_size |-> 144000, video_frame_rate |-> <<25, 1>>,
                    video_duration |-> <<1, 25>>,
                    audio_stereo_stream_count |-> 1,
                    audio_sample_rate |-> Some(48000)]]

PackContexts == {NTSC, PAL}

\* video_frame_rate * video_duration, an integer for a validated info
try_video_frame_count(info) ==
    LET n == info.video_frame_rate[1] * info.video_duration[1]
        d == info.video_frame_rate[2] * info.video_duration[2]
    IN  IF n % d = 0 THEN Ok(n \div d) ELSE Err("frame count is not an integer")

try_video_frame_size(info) ==
    LET c == try_video_frame_count(info)
    IN  IF ~c.ok THEN c
        ELSE IF c.val = 0 THEN Err("frame count is zero")
        ELSE IF info.file_size % c.val # 0 THEN Err("not evenly divisible")
        ELSE Ok(info.file_size \div c.val)

try_video_frame_info(info) ==
    LET s == try_video_frame_size(info)
    IN  IF ~s.ok THEN s
        ELSE IF s.val = 1 * 10 * 150 * 80 THEN Ok(<<1, 10>>)
        ELSE IF s.val = 1 * 12 * 150 * 80 THEN Ok(<<1, 12>>)
        ELSE IF s.val = 2 * 10 * 150 * 80 THEN Ok(<<2, 10>>)
        ELSE IF s.val = 2 * 12 * 150 * 80 THEN Ok(<<2, 12>>)
        ELSE Err("unsupported frame size")

try_system(info) ==
    LET i == try_video_frame_info(info)
    IN  IF ~i.ok THEN i
        ELSE IF i.val[2] = 10 THEN Ok(Sys525_60)
        ELSE Ok(Sys625_50)

\* ValidInfoMethods::system; the unwrap cannot fail on a validated info
system(info) == try_system(info).val

-----------------------------------------------------------------------------
(* pack::util: binary-coded decimal *)

\* the digits checked from the least significant one upwards
from_bcd_tens_UnitsFirst(tens, tmax, units) ==
    IF tens = tmax /\ units = 15 THEN Ok(None)
    ELSE IF units > 9 THEN Err("units place value is greater than 9")
    ELSE IF tens > 9 THEN Err("tens place value is greater than 9")
    ELSE Ok(Some(tens * 10 + units))

\* tmax is the all-ones value of the tens digit's bit width (TTens::MAX)
from_bcd_tens(tens, tmax, units) ==
    IF tens = tmax /\ units = 15 THEN Ok(None)
    ELSE IF tens > 9 THEN Err("tens place value is greater than 9")
    ELSE IF units > 9 THEN Err("units place value is greater than 9")
    ELSE Ok(Some(tens * 10 + units))

from_bcd_hundreds(hundreds, hmax, tens, units) ==
    IF hundreds = hmax /\ tens = 15 /\ units = 15 THEN Ok(None)
    ELSE IF hundreds > 9 THEN Err("hundreds place value is greater than 9")
    ELSE IF tens > 9 THEN Err("tens place value is greater than 9")
    ELSE IF units > 9 THEN Err("units place value is greater than 9")
    ELSE Ok(Some(hundreds * 100 + tens * 10 + units))

-----------------------------------------------------------------------------
(* pack::RawError and garde reports *)

\* RawError::Whatever: a decode failure; source is the wrapped cause
Whatever(msg, src) ==
    [kind |-> "Whatever", message |-> msg, source |-> src, report |-> <<>>]

\* RawError::PackValidation: the aggregated garde::Report, one path per entry
PackValidation(report) ==
    [kind |-> "PackValidation", message |-> "", source |-> "", report |-> report]

\* one report entry when the rule result r is an error, none otherwise
Entry(path, r) == IF r.ok THEN <<>> ELSE <<path>>

\* result of an encoder: the payload, or a panic raised on the way
Bytes(b) == [panic |-> FALSE, bytes |-> b]

Panic == [panic |-> TRUE, bytes |-> <<>>]

-----------------------------------------------------------------------------
(* pack::time: the two bit layouts of a timecode *)

Raw525_60Timecode_new_with_raw_value(p) ==
    [frame_units |-> Bits(p, 0, 3), frame_tens |-> Bits(p, 4, 5),
     df |-> Bit(p, 6) = 1, cf |-> Bit(p, 7),
     second_units |-> Bits(p, 8, 11), second_tens |-> Bits(p, 12, 14),
     pc |-> Bit(p, 15),
     minute_units |-> Bits(p, 16, 19), minute_tens |-> Bits(p, 20, 22),
     hour_units |-> Bits(p, 24, 27), hour_tens |-> Bits(p, 28, 29),
     bgf |-> BitList(p, <<23, 30, 31>>)]

Raw625_50Timecode_new_with_raw_value(p) ==
    [frame_units |-> Bits(p, 0, 3), frame_tens |-> Bits(p, 4, 5),
     df |-> Bit(p, 6) = 1, cf |-> Bit(p, 7),
     second_units |-> Bits(p, 8, 11), second_tens |-> Bits(p, 12, 14),
     minute_units |-> Bits(p, 16, 19), minute_tens |-> Bits(p, 20, 22),
     hour_units |-> Bits(p, 24, 27), hour_tens |-> Bits(p, 28, 29),
     pc |-> Bit(p, 31),
     bgf |-> BitList(p, <<15, 30, 23>>)]

\* builder().with_...().build().raw_value().to_le_bytes() of Raw525_60Timecode
Raw525_60Timecode_raw_value(r) ==
    << r.frame_units + 16 * r.frame_tens + 64 * (IF r.df THEN 1 ELSE 0) + 128 * r.cf,
       r.second_units + 16 * r.second_tens + 128 * r.pc,
       r.minute_units + 16 * r.minute_tens + 128 * (r.bgf % 2),
       r.hour_units + 16 * r.hour_tens + 64 * ((r.bgf \div 2) % 2)
           + 128 * ((r.bgf \div 4) % 2) >>

\* Raw625_50Timecode serialised with the bit positions of the 525-60 layout
Raw625_50Timecode_raw_value_525Layout(r) == Raw525_60Timecode_raw_value(r)

\* builder().with_...().build().raw_value().to_le_bytes() of Raw625_50Timecode
Raw625_50Timecode_raw_value(r) ==
    << r.frame_units + 16 * r.frame_tens + 64 * (IF r.df THEN 1 ELSE 0) + 128 * r.cf,
       r.second_units + 16 * r.second_tens + 128 * (r.bgf % 2),
       r.minute_units + 16 * r.minute_tens + 128 * ((r.bgf \div 4) % 2),
       r.hour_units + 16 * r.hour_tens + 64 * ((r.bgf \div 2) % 2) + 128 * r.pc >>

\* the common structure both layouts are transformed into before field extraction;
\* the 625-50 fields are copied one by one into a record of the same fields
NormalizedTimecode(p, c) ==
    IF system(c.file_info) = Sys525_60
    THEN Raw525_60Timecode_new_with_raw_value(p)
    ELSE Raw625_50Timecode_new_with_raw_value(p)

-----------------------------------------------------------------------------
(* pack::time: decode *)

\* PackData::try_from_raw for Timecode<Option<TimeValueWithOptionalFrame>>
RecordingTime_try_from_raw(p, c) ==
    The({
        LET hour == from_bcd_tens(r.hour_tens, 3, r.hour_units)
            minute == from_bcd_tens(r.minute_tens, 7, r.minute_units)
            second == from_bcd_tens(r.second_tens, 7, r.second_units)
            frame == from_bcd_tens(r.frame_tens, 3, r.frame_units)
            time_absent == IsNone(hour.val) \/ IsNone(minute.val) \/ IsNone(second.val)
            time_present == IsSome(hour.val) \/ IsSome(minute.val) \/ IsSome(second.val)
        IN  IF ~hour.ok THEN Err(Whatever("couldn't read the time's hour", hour.err))
            ELSE IF ~minute.ok
            THEN Err(Whatever("couldn't read the time's minute", minute.err))
            ELSE IF ~second.ok
            THEN Err(Whatever("couldn't read the time's second", second.err))
            ELSE IF ~frame.ok
            THEN Err(Whatever("couldn't read the time's frame number", frame.err))
            ELSE IF time_absent = time_present
            THEN Err(Whatever(
                "hour/minute/second time fields must be fully present or fully absent", ""))
            ELSE IF time_absent /\ IsSome(frame.val)
            THEN Err(Whatever(
                "frame number cannot be given if the rest of the time is missing", ""))
            ELSE Ok([time |-> IF time_present
                              THEN Some([hour |-> hour.val[1], minute |-> minute.val[1],
                                         second |-> second.val[1], drop_frame |-> r.df,
                                         frame |-> frame.val])
                              ELSE None,
                     color_frame |-> r.cf,
                     polarity_correction |-> r.pc,
                     binary_group_flag |-> r.bgf])
        : r \in {NormalizedTimecode(p, c)}})

\* the required-frame form of a decoded optional timecode; frame is the frame
\* number taken from it
TimecodeRequired(parsed, frame) ==
    [time |-> [hour |-> parsed.time[1].hour,
               minute |-> parsed.time[1].minute,
               second |-> parsed.time[1].second,
               drop_frame |-> parsed.time[1].drop_frame,
               frame |-> frame],
     color_frame |-> parsed.color_frame,
     polarity_correction |-> parsed.polarity_correction,
     binary_group_flag |-> parsed.binary_group_flag]

\* the checks Timecode<TimeValueWithRequiredFrame>::try_from_raw makes on the
\* result of the optional decode
RequireTimeAndFrame(parsed) ==
    IF ~parsed.ok THEN parsed
    ELSE IF IsNone(parsed.val.time)
    THEN Err(Whatever("required timecode value is missing", ""))
    ELSE IF IsNone(parsed.val.time[1].frame)
    THEN Err(Whatever("required frame number is missing", ""))
    ELSE Ok(TimecodeRequired(parsed.val, parsed.val.time[1].frame[1]))

\* the same checks, except that an absent frame number is read as frame 0
RequireTimeOnly(parsed) ==
    IF ~parsed.ok THEN parsed
    ELSE IF IsNone(parsed.val.time)
    THEN Err(Whatever("required timecode value is missing", ""))
    ELSE IF IsNone(parsed.val.time[1].frame)
    THEN Ok(TimecodeRequired(parsed.val, 0))
    ELSE Ok(TimecodeRequired(parsed.val, parsed.val.time[1].frame[1]))

\* a required-frame timecode that reads an absent frame number as frame 0
TimecodeRequired_try_from_raw_DefaultFrame(p, c) ==
    The({RequireTimeOnly(parsed) : parsed \in {RecordingTime_try_from_raw(p, c)}})

\* PackData::try_from_raw for Timecode<TimeValueWithRequiredFrame>
TimecodeRequired_try_from_raw(p, c) ==
    The({RequireTimeAndFrame(parsed) : parsed \in {RecordingTime_try_from_raw(p, c)}})

\* PackData::try_from_raw for TitleTimecode; BlankFlag::Continuous is 1
TitleTimecode_try_from_raw(p, c) ==
    The({
        IF ~tc.ok THEN tc
        ELSE Ok([timecode |-> tc.val,
                 blank_flag |-> IF (p[1] \div 128) % 2 = 1 THEN 1 ELSE 0])
        : tc \in {TimecodeRequired_try_from_raw(p, c)}})

-----------------------------------------------------------------------------
(* pack::time: validation *)

\* the 525-60 maximum applied under both systems
check_frame_number_SameLimit(time_value, frame_number, c) ==
    IF frame_number > 29
    THEN Err("frame number is greater than 29")
    ELSE IF system(c.file_info) = Sys525_60 /\ time_value.drop_frame
            /\ time_value.minute % 10 > 0
            /\ time_value.second = 0 /\ frame_number < 2
    THEN Err("the drop frame flag was set, but a dropped frame number was provided")
    ELSE Ok(<<>>)

\* FrameTypeTrait::check_frame_number for u8
check_frame_number(time_value, frame_number, c) ==
    IF system(c.file_info) = Sys525_60
    THEN IF frame_number > 29
         THEN Err("frame number is greater than 29")
         ELSE IF time_value.drop_frame /\ time_value.minute % 10 > 0
                 /\ time_value.second = 0 /\ frame_number < 2
         THEN Err("the drop frame flag was set, but a dropped frame number was provided")
         ELSE Ok(<<>>)
    ELSE IF frame_number > 24
         THEN Err("frame number is greater than 24")
         ELSE Ok(<<>>)

\* FrameTypeTrait::check_frame_number for Option<u8>
check_frame_number_opt(time_value, frame_number, c) ==
    IF IsNone(frame_number) THEN Ok(<<>>)
    ELSE check_frame_number(
             [hour |-> time_value.hour, minute |-> time_value.minute,
              second |-> time_value.second, drop_frame |-> time_value.drop_frame,
              frame |-> frame_number[1]], frame_number[1], c)

\* a garde range(min, max) rule
range(v, min, max) == IF v < min \/ v > max THEN Err("out of range") ELSE Ok(<<>>)

\* derived Validate of TimeValue<u8>; path is the path of the value in the report
TimeValueWithRequiredFrame_validate(t, c, path) ==
    Entry(path \o <<"hour">>, range(t.hour, 0, 23))
    \o Entry(path \o <<"minute">>, range(t.minute, 0, 59))
    \o Entry(path \o <<"second">>, range(t.second, 0, 59))
    \o Entry(path \o <<"frame">>, check_frame_number(t, t.frame, c))

\* derived Validate of TimeValue<Option<u8>>
TimeValueWithOptionalFrame_validate(t, c, path) ==
    Entry(path \o <<"hour">>, range(t.hour, 0, 23))
    \o Entry(path \o <<"minute">>, range(t.minute, 0, 59))
    \o Entry(path \o <<"second">>, range(t.second, 0, 59))
    \o Entry(path \o <<"frame">>, check_frame_number_opt(t, t.frame, c))

\* derived Validate of Timecode<Option<TimeValueWithOptionalFrame>>
RecordingTime_validate(v, c, path) ==
    IF IsNone(v.time) THEN <<>>
    ELSE TimeValueWithOptionalFrame_validate(v.time[1], c, path \o <<"time">>)

\* derived Validate of Timecode<TimeValueWithRequiredFrame>
TimecodeRequired_validate(v, c, path) ==
    TimeValueWithRequiredFrame_validate(v.time, c, path \o <<"time">>)

\* a blank flag that is never compared with the colour frame flag
check_blank_flag_Unchecked(title_timecode, blank_flag) == Ok(<<>>)

check_blank_flag(title_timecode, blank_flag) ==
    IF blank_flag # title_timecode.timecode.color_frame
    THEN Err("Blank flag integer value must be equal to the color frame flag")
    ELSE Ok(<<>>)

\* derived Validate of TitleTimecode
TitleTimecode_validate(v, c, path) ==
    TimecodeRequired_validate(v.timecode, c, path \o <<"timecode">>)
    \o Entry(path \o <<"blank_flag">>, check_blank_flag(v, v.blank_flag))

-----------------------------------------------------------------------------
(* pack::time: encode *)

\* ValidPackDataTrait::to_raw for Timecode<Option<TimeValueWithOptionalFrame>>.
\* uN::new panics when the digit does not fit its bit width.
RecordingTime_to_raw(v, c) ==
    LET t == v.time
        hasFrame == IsSome(t) /\ IsSome(t[1].frame)
        r == [frame_units |-> IF hasFrame THEN t[1].frame[1] % 10 ELSE 15,
              frame_tens |-> IF hasFrame THEN t[1].frame[1] \div 10 ELSE 3,
              df |-> IF IsSome(t) THEN t[1].drop_frame ELSE TRUE,
              cf |-> v.color_frame,
              second_units |-> IF IsSome(t) THEN t[1].second % 10 ELSE 15,
              second_tens |-> IF IsSome(t) THEN t[1].second \div 10 ELSE 7,
              pc |-> v.polarity_correction,
              minute_units |-> IF IsSome(t) THEN t[1].minute % 10 ELSE 15,
              minute_tens |-> IF IsSome(t) THEN t[1].minute \div 10 ELSE 7,
              hour_units |-> IF IsSome(t) THEN t[1].hour % 10 ELSE 15,
              hour_tens |-> IF IsSome(t) THEN t[1].hour \div 10 ELSE 3,
              bgf |-> v.binary_group_flag]
    IN  IF r.frame_tens > 3 \/ r.second_tens > 7 \/ r.minute_tens > 7 \/ r.hour_tens > 3
        THEN Panic
        ELSE IF system(c.file_info) = Sys525_60
        THEN Bytes(Raw525_60Timecode_raw_value(r))
        ELSE Bytes(Raw625_50Timecode_raw_value(r))

\* ValidPackDataTrait::to_raw for Timecode<TimeValueWithRequiredFrame>: converts to
\* the optional form, validates it again with ctx and unwraps
TimecodeRequired_to_raw(v, c) ==
    The({
        IF RecordingTime_validate(o, c, <<>>) # <<>> THEN Panic
        ELSE RecordingTime_to_raw(o, c)
        : o \in {[time |-> Some([hour |-> v.time.hour, minute |-> v.time.minute,
                                 second |-> v.time.second,
                                 drop_frame |-> v.time.drop_frame,
                                 frame |-> Some(v.time.frame)]),
                  color_frame |-> v.color_frame,
                  polarity_correction |-> v.polarity_correction,
                  binary_group_flag |-> v.binary_group_flag]}})

\* ValidPackDataTrait::to_raw for TitleTimecode: validates the inner timecode
\* with ctx, unwraps, and never writes blank_flag
TitleTimecode_to_raw(v, c) ==
    IF TimecodeRequired_validate(v.timecode, c, <<>>) # <<>> THEN Panic
    ELSE TimecodeRequired_to_raw(v.timecode, c)

-----------------------------------------------------------------------------
(* chrono: the calendar operations the date pack relies on *)

IsLeapYear(y) == y % 4 = 0 /\ (y % 100 # 0 \/ y % 400 = 0)

DaysInMonth(y, m) ==
    IF m = 2 THEN (IF IsLeapYear(y) THEN 29 ELSE 28)
    ELSE IF m \in {4, 6, 9, 11} THEN 30 ELSE 31

\* NaiveDate::from_ymd_opt
from_ymd_opt(y, m, d) ==
    IF m >= 1 /\ m <= 12 /\ d >= 1 /\ d <= DaysInMonth(y, m)
    THEN Some([year |-> y, month |-> m, day |-> d])
    ELSE None

RECURSIVE DaysBeforeMonth(_, _)
DaysBeforeMonth(y, m) ==
    IF m = 1 THEN 0 ELSE DaysBeforeMonth(y, m - 1) + DaysInMonth(y, m - 1)

\* days from 0001-01-01 (a Monday) to the date, proleptic Gregorian
DaysFromCE(d) ==
    LET y == d.year - 1
    IN  365 * y + (y \div 4) - (y \div 100) + (y \div 400)
        + DaysBeforeMonth(d.year, d.month) + d.day - 1

\* NaiveDate::weekday
weekday(d) == <<"Mon", "Tue", "Wed", "Thu", "Fri", "Sat", "Sun">>[(DaysFromCE(d) % 7) + 1]

\* an offset constructor without the one-day limit
east_opt_Unlimited(secs) == Some(secs)

\* FixedOffset::east_opt: the offset in seconds must lie strictly within a day
east_opt(secs) == IF secs > -86400 /\ secs < 86400 THEN Some(secs) ELSE None

\* Rust's / and % on signed integers truncate toward zero
RustDiv(a, b) == IF a >= 0 THEN a \div b ELSE -((-a) \div b)

RustRem(a, b) == a - b * RustDiv(a, b)

-----------------------------------------------------------------------------
(* pack::date *)

RawRecordingDate_new_with_raw_value(p) ==
    [tz_hour_units |-> Bits(p, 0, 3), tz_hour_tens |-> Bits(p, 4, 5),
     tm |-> Bit(p, 6), ds |-> Bit(p, 7),
     day_units |-> Bits(p, 8, 11), day_tens |-> Bits(p, 12, 13),
     reserved |-> Bits(p, 14, 15),
     month_units |-> Bits(p, 16, 19), month_tens |-> Bit(p, 20),
     week |-> Bits(p, 21, 23),
     year_units |-> Bits(p, 24, 27), year_tens |-> Bits(p, 28, 31)]

\* a date word written with its two reserved bits cleared
RawRecordingDate_raw_value_ReservedCleared(r) ==
    << r.tz_hour_units + 16 * r.tz_hour_tens + 64 * r.tm + 128 * r.ds,
       r.day_units + 16 * r.day_tens,
       r.month_units + 16 * r.month_tens + 32 * r.week,
       r.year_units + 16 * r.year_tens >>

\* RawRecordingDate::raw_value as its four little-endian bytes
RawRecordingDate_raw_value(r) ==
    << r.tz_hour_units + 16 * r.tz_hour_tens + 64 * r.tm + 128 * r.ds,
       r.day_units + 16 * r.day_tens + 64 * r.reserved,
       r.month_units + 16 * r.month_tens + 32 * r.week,
       r.year_units + 16 * r.year_tens >>

\* RawWeekday <-> chrono::Weekday; RawWeekday::NoInfo = 0x7 is the absent weekday
RawWeekdayNames == <<"Sun", "Mon", "Tue", "Wed", "Thu", "Fri", "Sat">>

WeekdayFromRaw(w) == IF w = 7 THEN None ELSE Some(RawWeekdayNames[w + 1])

\* the weekday numbered from Monday, as Weekday::num_days_from_monday does
WeekdayToRaw_FromMonday(w) ==
    IF IsNone(w) THEN 7
    ELSE (6 + CHOOSE i \in 0..6 : RawWeekdayNames[i + 1] = w[1]) % 7

WeekdayToRaw(w) ==
    IF IsNone(w) THEN 7
    ELSE CHOOSE i \in 0..6 : RawWeekdayNames[i + 1] = w[1]

\* PackData::try_from_raw for RecordingDate
RecordingDate_try_from_raw(p, c) ==
    LET r == RawRecordingDate_new_with_raw_value(p)
        year2 == from_bcd_tens(r.year_tens, 15, r.year_units)
        year == IF IsNone(year2.val) THEN None
                ELSE Some(year2.val[1] + (IF year2.val[1] < 75 THEN 2000 ELSE 1900))
        month == from_bcd_tens(r.month_tens, 1, r.month_units)
        day == from_bcd_tens(r.day_tens, 3, r.day_units)
        tz_hour == from_bcd_tens(r.tz_hour_tens, 3, r.tz_hour_units)
        timezone == IF IsNone(tz_hour.val) THEN Some(None)
                    ELSE LET o == east_opt(tz_hour.val[1] * 60 * 60
                                           + (1 - r.tm) * 30 * 60)
                         IN  IF IsNone(o) THEN None ELSE Some(o)
        present == {IsSome(year), IsSome(month.val), IsSome(day.val)}
        date == IF present = {TRUE}
                THEN from_ymd_opt(year[1], month.val[1], day.val[1])
                ELSE None
    IN  IF ~year2.ok THEN Err(Whatever("couldn't read the date's year", year2.err))
        ELSE IF ~month.ok THEN Err(Whatever("couldn't read the date's month", month.err))
        ELSE IF ~day.ok THEN Err(Whatever("couldn't read the date's day", day.err))
        ELSE IF ~tz_hour.ok
        THEN Err(Whatever("couldn't read the date's timezone", tz_hour.err))
        ELSE IF IsNone(timezone) THEN Err(Whatever("timezone hour is out of range", ""))
        ELSE IF present = {TRUE} /\ IsNone(date)
        THEN Err(Whatever("the date is not a valid date", ""))
        ELSE IF present = {TRUE, FALSE}
        THEN Err(Whatever(
            "year/month/day date fields must be fully present or fully absent", ""))
        ELSE Ok([date |-> date,
                 weekday |-> WeekdayFromRaw(r.week),
                 timezone |-> timezone[1],
                 daylight_saving_time |-> IF IsNone(timezone[1]) THEN None
                                          ELSE Some(r.ds),
                 reserved |-> r.reserved])

\* the year range shifted by one at its lower end
check_date_OffByOne(date) ==
    IF IsNone(date) THEN Ok(<<>>)
    ELSE IF date[1].year < 1976
    THEN Err("the year is before the minimum allowed year 1975")
    ELSE IF date[1].year < 2075 THEN Ok(<<>>)
    ELSE Err("the year is after the maximum allowed year 2074")

check_date(date) ==
    IF IsNone(date) THEN Ok(<<>>)
    ELSE IF date[1].year < 1975
    THEN Err("the year is before the minimum allowed year 1975")
    ELSE IF date[1].year < 2075 THEN Ok(<<>>)
    ELSE Err("the year is after the maximum allowed year 2074")

check_weekday(recording_date, wd) ==
    IF IsNone(wd) THEN Ok(<<>>)
    ELSE IF IsNone(recording_date.date)
    THEN Err("a weekday must not be provided if the date is otherwise absent.")
    ELSE IF weekday(recording_date.date[1]) = wd[1] THEN Ok(<<>>)
    ELSE Err("the weekday field value does not match the date weekday")

\* the multiple-of-30-minutes rule without the sign rule
check_timezone_SignIgnored(timezone) ==
    IF IsNone(timezone) THEN Ok(<<>>)
    ELSE IF RustRem(timezone[1], 30 * 60) = 0 THEN Ok(<<>>)
    ELSE Err("the time zone offset must be a multiple of 30 minutes, or 1800 seconds")

check_timezone(timezone) ==
    IF IsNone(timezone) THEN Ok(<<>>)
    ELSE IF timezone[1] < 0
    THEN Err("the time zone offset must be a positive offset from GMT")
    ELSE IF RustRem(timezone[1], 30 * 60) = 0 THEN Ok(<<>>)
    ELSE Err("the time zone offset must be a multiple of 30 minutes, or 1800 seconds")

check_dst(recording_date, daylight_saving_time) ==
    IF IsSome(recording_date.timezone) = IsSome(daylight_saving_time) THEN Ok(<<>>)
    ELSE IF IsSome(recording_date.timezone)
    THEN Err("daylight saving time value must be specified if time zone is present")
    ELSE Err("daylight saving time value must be not specified if time zone is absent")

\* derived Validate of RecordingDate
RecordingDate_validate(v, c, path) ==
    Entry(path \o <<"date">>, check_date(v.date))
    \o Entry(path \o <<"weekday">>, check_weekday(v, v.weekday))
    \o Entry(path \o <<"timezone">>, check_timezone(v.timezone))
    \o Entry(path \o <<"daylight_saving_time">>, check_dst(v, v.daylight_saving_time))

\* ValidPackDataTrait::to_raw for RecordingDate; u8::try_from(..).unwrap() panics
\* on a negative quotient, uN::new on a digit wider than the field
RecordingDate_to_raw(v, c) ==
    LET hasTz == IsSome(v.timezone)
        tz_hours == IF hasTz THEN RustDiv(v.timezone[1], 60 * 60) ELSE 0
        tz_thirty_minute ==
            IF hasTz THEN RustDiv(RustRem(v.timezone[1], 60 * 60), 30 * 60) ELSE 0
        hasDate == IsSome(v.date)
        d == IF hasDate THEN v.date[1] ELSE [year |-> 0, month |-> 0, day |-> 0]
        r == [tz_hour_units |-> IF hasTz THEN tz_hours % 10 ELSE 15,
              tz_hour_tens |-> IF hasTz THEN tz_hours \div 10 ELSE 3,
              tm |-> IF hasTz THEN 1 - tz_thirty_minute ELSE 1,
              ds |-> IF IsSome(v.daylight_saving_time)
                     THEN v.daylight_saving_time[1] ELSE 1,
              day_units |-> IF hasDate THEN d.day % 10 ELSE 15,
              day_tens |-> IF hasDate THEN d.day \div 10 ELSE 3,
              reserved |-> v.reserved,
              month_units |-> IF hasDate THEN d.month % 10 ELSE 15,
              month_tens |-> IF hasDate THEN d.month \div 10 ELSE 1,
              week |-> WeekdayToRaw(v.weekday),
              year_units |-> IF hasDate THEN RustRem(d.year, 10) ELSE 15,
              year_tens |-> IF hasDate THEN RustRem(RustDiv(d.year, 10), 10) ELSE 15]
    IN  IF tz_hours < 0 \/ tz_thirty_minute < 0 \/ tz_thirty_minute > 1
           \/ r.tz_hour_tens > 3 \/ r.day_tens > 3 \/ r.month_tens > 1
           \/ r.year_units < 0 \/ r.year_tens < 0
        THEN Panic
        ELSE Bytes(RawRecordingDate_raw_value(r))

-----------------------------------------------------------------------------
(* pack::binary_group *)

\* PackData::try_from_raw for BinaryGroup: element i is bits 4i..=4i+3
BinaryGroup_try_from_raw(p, c) ==
    Ok([group_data |-> [i \in 1..8 |-> Bits(p, 4 * (i - 1), 4 * (i - 1) + 3)]])

\* a BinaryGroup written with the two nibbles of each byte exchanged
BinaryGroup_to_raw_NibblesSwapped(v, c) ==
    Bytes([i \in 1..4 |-> v.group_data[2 * i] + 16 * v.group_data[2 * i - 1]])

\* ValidPackDataTrait::to_raw for BinaryGroup
BinaryGroup_to_raw(v, c) ==
    Bytes([i \in 1..4 |-> v.group_data[2 * i - 1] + 16 * v.group_data[2 * i]])

-----------------------------------------------------------------------------
(* pack::common and pack::aaux_source: the AAUX source pack                  *)

\* one report entry with its message when the rule result r is an error
EntryWithMessage(path, r) ==
    IF r.ok THEN <<>> ELSE <<[path |-> path, message |-> r.err]>>

\* a field count other than 50 or 60 is accepted when it is not the expected one
check_field_count_AnyStandardCount(field_count, c) ==
    IF field_count \notin {50, 60}
    THEN Err(<<"field count of", field_count, "does not match the expected value of",
               IF system(c.file_info) = Sys525_60 THEN 60 ELSE 50,
               "for system", system(c.file_info)>>)
    ELSE Ok(<<>>)

\* check_field_count: the field count must be the one of the context's system
check_field_count(field_count, c) ==
    LET expected_field_count == IF system(c.file_info) = Sys525_60 THEN 60 ELSE 50
    IN  IF field_count # expected_field_count
        THEN Err(<<"field count of", field_count, "does not match the expected value of",
                   expected_field_count, "for system", system(c.file_info)>>)
        ELSE Ok(<<>>)

\* None when the sample rate is unsupported, else Some(<<min, max>>)
allowed_audio_frame_size_range(sys, audio_sample_rate) ==
    IF sys = Sys525_60
    THEN CASE audio_sample_rate = 32000 -> Some(<<1053, 1080>>)
           [] audio_sample_rate = 44100 -> Some(<<1452, 1489>>)
           [] audio_sample_rate = 48000 -> Some(<<1580, 1620>>)
           [] OTHER -> None
    ELSE CASE audio_sample_rate = 32000 -> Some(<<1264, 1296>>)
           [] audio_sample_rate = 44100 -> Some(<<1742, 1786>>)
           [] audio_sample_rate = 48000 -> Some(<<1896, 1944>>)
           [] OTHER -> None

check_audio_sample_rate(audio_sample_rate, c) ==
    IF audio_sample_rate \in {32000, 44100, 48000} THEN Ok(<<>>)
    ELSE Err(<<"audio sample rate is not one of the supported values",
               audio_sample_rate>>)

\* a frame-size rule that checks the minimum only
check_audio_frame_size_NoMaximum(aaux_source, audio_frame_size, c) ==
    LET sys == system(c.file_info)
        r == allowed_audio_frame_size_range(sys, aaux_source.audio_sample_rate)
    IN  IF IsNone(r)
        THEN Err(<<"cannot validate the audio frame size because the audio sample rate is unsupported">>)
        ELSE IF audio_frame_size < r[1][1]
        THEN Err(<<"below the required minimum", audio_frame_size, r[1][1], sys,
                   aaux_source.audio_sample_rate>>)
        ELSE Ok(<<>>)

\* check_audio_frame_size: the size lies in the window of the system and rate
check_audio_frame_size(aaux_source, audio_frame_size, c) ==
    LET sys == system(c.file_info)
        r == allowed_audio_frame_size_range(sys, aaux_source.audio_sample_rate)
    IN  IF IsNone(r)
        THEN Err(<<"cannot validate the audio frame size because the audio sample rate is unsupported">>)
        ELSE IF audio_frame_size < r[1][1]
        THEN Err(<<"below the required minimum", audio_frame_size, r[1][1], sys,
                   aaux_source.audio_sample_rate>>)
        ELSE IF audio_frame_size > r[1][2]
        THEN Err(<<"above the maximum", audio_frame_size, r[1][2], sys,
                   aaux_source.audio_sample_rate>>)
        ELSE Ok(<<>>)

\* garde's range rule with its messages
range_with_message(v, min, max) ==
    IF v < min THEN Err(<<"lower than", min>>)
    ELSE IF v > max THEN Err(<<"greater than", max>>)
    ELSE Ok(<<>>)

\* a derived Validate that returns at the first violated field
AAUXSource_validate_FailFast(v, c, path) ==
    LET all == EntryWithMessage(path \o <<"audio_sample_rate">>,
                                check_audio_sample_rate(v.audio_sample_rate, c))
               \o EntryWithMessage(path \o <<"audio_frame_size">>,
                                   check_audio_frame_size(v, v.audio_frame_size, c))
               \o EntryWithMessage(path \o <<"audio_block_channel_count">>,
                                   range_with_message(v.audio_block_channel_count, 1, 2))
               \o EntryWithMessage(path \o <<"field_count">>,
                                   check_field_count(v.field_count, c))
    IN  IF all = <<>> THEN <<>> ELSE <<all[1]>>

\* derived Validate of AAUXSource: every field rule runs, in declaration order
AAUXSource_validate(v, c, path) ==
    EntryWithMessage(path \o <<"audio_sample_rate">>,
                     check_audio_sample_rate(v.audio_sample_rate, c))
    \o EntryWithMessage(path \o <<"audio_frame_size">>,
                        check_audio_frame_size(v, v.audio_frame_size, c))
    \o EntryWithMessage(path \o <<"audio_block_channel_count">>,
                        range_with_message(v.audio_block_channel_count, 1, 2))
    \o EntryWithMessage(path \o <<"field_count">>,
                        check_field_count(v.field_count, c))

RawAAUXSource_new_with_raw_value(p) ==
    [af_size |-> Bits(p, 0, 5), reserved |-> Bit(p, 6) + 2 * Bit(p, 23),
     lf |-> Bit(p, 7),
     audio_mode |-> Bits(p, 8, 11), pa |-> Bit(p, 12), chn |-> Bits(p, 13, 14),
     sm |-> Bit(p, 15),
     stype |-> Bits(p, 16, 20), field_count |-> Bit(p, 21), ml |-> Bit(p, 22) = 1,
     qu |-> Bits(p, 24, 26), smp |-> Bits(p, 27, 29), tc |-> Bit(p, 30),
     ef |-> Bit(p, 31) = 1]

\* a word written with the two reserved bits at each other's position
RawAAUXSource_raw_value_ReservedSwapped(r) ==
    << r.af_size + 64 * (r.reserved \div 2) + 128 * r.lf,
       r.audio_mode + 16 * r.pa + 32 * r.chn + 128 * r.sm,
       r.stype + 32 * r.field_count + 64 * (IF r.ml THEN 1 ELSE 0)
           + 128 * (r.reserved % 2),
       r.qu + 8 * r.smp + 64 * r.tc + 128 * (IF r.ef THEN 1 ELSE 0) >>

\* RawAAUXSource::raw_value as its four little-endian bytes
RawAAUXSource_raw_value(r) ==
    << r.af_size + 64 * (r.reserved % 2) + 128 * r.lf,
       r.audio_mode + 16 * r.pa + 32 * r.chn + 128 * r.sm,
       r.stype + 32 * r.field_count + 64 * (IF r.ml THEN 1 ELSE 0)
           + 128 * (r.reserved \div 2),
       r.qu + 8 * r.smp + 64 * r.tc + 128 * (IF r.ef THEN 1 ELSE 0) >>

\* PackData::try_from_raw for AAUXSource
AAUXSource_try_from_raw(p, c) ==
    LET r == RawAAUXSource_new_with_raw_value(p)
        audio_sample_rate ==
            CASE r.smp = 0 -> 48000 [] r.smp = 1 -> 44100 [] r.smp = 2 -> 32000
              [] OTHER -> 0
        rng == allowed_audio_frame_size_range(system(c.file_info), audio_sample_rate)
    IN  IF r.smp > 2
        THEN Err(Whatever("smp value does not correspond to a known audio sample rate",
                          ""))
        ELSE IF IsNone(rng)
        THEN Err(Whatever("audio sample rate is unsupported", ""))
        ELSE IF r.chn > 1
        THEN Err(Whatever("chn value does not correspond to a known number of channels per audio block",
                          ""))
        ELSE Ok([audio_sample_rate |-> audio_sample_rate,
                 quantization |-> r.qu,
                 audio_frame_size |-> rng[1][1] + r.af_size,
                 locked_mode |-> r.lf,
                 stereo_mode |-> r.sm,
                 audio_block_channel_count |-> r.chn + 1,
                 audio_mode |-> r.audio_mode,
                 audio_block_pairing |-> r.pa,
                 multi_language |-> ~r.ml,
                 source_type |-> r.stype,
                 field_count |-> IF r.field_count = 0 THEN 60 ELSE 50,
                 emphasis_on |-> ~r.ef,
                 emphasis_time_constant |-> r.tc,
                 reserved |-> r.reserved])

\* ValidPackDataTrait::to_raw for AAUXSource; audio_frame_size - min is a u16
\* subtraction (an overflow panics, or wraps and then fails u8::try_from), and
\* u6::new panics above 63
AAUXSource_to_raw(v, c) ==
    LET rng == allowed_audio_frame_size_range(system(c.file_info), v.audio_sample_rate)
    IN  IF IsNone(rng) THEN Panic
        ELSE IF v.audio_frame_size - rng[1][1] < 0 THEN Panic
        ELSE IF v.audio_frame_size - rng[1][1] > 255 THEN Panic
        ELSE IF v.audio_frame_size - rng[1][1] > 63 THEN Panic
        ELSE IF v.audio_block_channel_count \notin {1, 2} THEN Panic
        ELSE IF v.field_count \notin {50, 60} THEN Panic
        ELSE IF v.audio_sample_rate \notin {32000, 44100, 48000} THEN Panic
        ELSE Bytes(RawAAUXSource_raw_value(
                 [af_size |-> v.audio_frame_size - rng[1][1],
                  reserved |-> v.reserved,
                  lf |-> v.locked_mode,
                  audio_mode |-> v.audio_mode,
                  pa |-> v.audio_block_pairing,
                  chn |-> v.audio_block_channel_count - 1,
                  sm |-> v.stereo_mode,
                  stype |-> v.source_type,
                  field_count |-> IF v.field_count = 60 THEN 0 ELSE 1,
                  ml |-> ~v.multi_language,
                  qu |-> v.quantization,
                  smp |-> CASE v.audio_sample_rate = 48000 -> 0
                            [] v.audio_sample_rate = 44100 -> 1
                            [] v.audio_sample_rate = 32000 -> 2,
                  tc |-> v.emphasis_time_constant,
                  ef |-> ~v.emphasis_on]))

-----------------------------------------------------------------------------
(* pack::vaux_source: validation and encode of the VAUX source pack          *)

\* check_source_code: presence of the TV channel, then of the tuner category
check_source_code(vaux_source, source_code) ==
    IF source_code \notin {Some("Cable"), Some("Tuner")}
          /\ IsSome(vaux_source.tv_channel)
    THEN Err(<<"a TV channel number must not be provided for this source code value">>)
    ELSE IF source_code \in {Some("Cable"), Some("Tuner")}
          /\ IsNone(vaux_source.tv_channel)
    THEN Err(<<"a TV channel number is required for this source code value">>)
    ELSE IF source_code # Some("Tuner") /\ IsSome(vaux_source.tuner_category)
    THEN Err(<<"a tuner category must not be provided if the source code is not a tuner">>)
    ELSE IF source_code = Some("Tuner") /\ IsNone(vaux_source.tuner_category)
    THEN Err(<<"a tuner category must be provided if the source code is a tuner">>)
    ELSE Ok(<<>>)

check_tuner_category(tuner_category) ==
    IF tuner_category = Some(255)
    THEN Err(<<"instead of specifying Some(0xFF), use None to indicate no information">>)
    ELSE Ok(<<>>)

\* garde's range rule on an Option: an absent value passes
range_opt_with_message(v, min, max) ==
    IF IsNone(v) THEN Ok(<<>>) ELSE range_with_message(v[1], min, max)

\* derived Validate of VAUXSource: every field rule runs, in declaration order
VAUXSource_validate(v, c, path) ==
    EntryWithMessage(path \o <<"source_code">>, check_source_code(v, v.source_code))
    \o EntryWithMessage(path \o <<"tv_channel">>,
                        range_opt_with_message(v.tv_channel, 1, 999))
    \o EntryWithMessage(path \o <<"tuner_category">>,
                        check_tuner_category(v.tuner_category))
    \o EntryWithMessage(path \o <<"field_count">>,
                        check_field_count(v.field_count, c))

\* Unvalidated::<VAUXSource>::new(v).validate_with(ctx)
VAUXSource_validate_with(v, c) ==
    The({
        IF report = <<>> THEN Ok(v) ELSE Err(PackValidation(report))
        : report \in {VAUXSource_validate(v, c, <<>>)}})

RawVAUXSource_raw_value(r) ==
    << r.tv_channel_units + 16 * r.tv_channel_tens,
       r.tv_channel_hundreds + 16 * r.clf + 64 * r.en + 128 * r.bw,
       r.stype + 32 * r.field_count + 64 * r.source_code,
       r.tuner_category >>

\* ValidPackDataTrait::to_raw for VAUXSource: tv_channel.unwrap() panics on None,
\* u8::try_from(tv_channel / 100) above 255 and u4::new above 15
VAUXSource_to_raw(v, c) ==
    LET with_channel == v.source_code \in {Some("Cable"), Some("Tuner")}
        e_code == v.source_code \in {Some("LineMUSE"), Some("PrerecordedTape")}
    IN  IF with_channel /\ IsNone(v.tv_channel) THEN Panic
        ELSE IF with_channel /\ v.tv_channel[1] \div 100 > 255 THEN Panic
        ELSE IF with_channel /\ v.tv_channel[1] \div 100 > 15 THEN Panic
        ELSE IF v.field_count \notin {50, 60} THEN Panic
        ELSE Bytes(RawVAUXSource_raw_value(
                 [tv_channel_units |->
                      IF with_channel THEN v.tv_channel[1] % 10
                      ELSE IF e_code THEN 14 ELSE 15,
                  tv_channel_tens |->
                      IF with_channel THEN (v.tv_channel[1] \div 10) % 10
                      ELSE IF e_code THEN 14 ELSE 15,
                  tv_channel_hundreds |->
                      IF with_channel THEN v.tv_channel[1] \div 100
                      ELSE IF e_code THEN 14 ELSE 15,
                  clf |-> IF IsSome(v.color_frames_id) THEN v.color_frames_id[1] ELSE 3,
                  en |-> IF IsSome(v.color_frames_id) THEN 0 ELSE 1,
                  bw |-> v.bw_flag,
                  stype |-> v.source_type,
                  field_count |-> IF v.field_count = 60 THEN 0 ELSE 1,
                  source_code |->
                      CASE v.source_code = Some("Camera") -> 0
                        [] v.source_code \in {Some("LineMUSE"), Some("Line")} -> 1
                        [] v.source_code = Some("Cable") -> 2
                        [] OTHER -> 3,
                  tuner_category |->
                      IF IsSome(v.tuner_category) THEN v.tuner_category[1] ELSE 255]))

-----------------------------------------------------------------------------
(* pack::types: the registry and the dispatch generated by type_macro! *)

\* the (name, header, data type) tuples handed to type_macro!, in order
TypeList ==
    << [name |-> "TitleTimecode", val |-> 19, data_type |-> "TitleTimecode"],
       [name |-> "TitleBinaryGroup", val |-> 20, data_type |-> "BinaryGroup"],
       [name |-> "AAUXRecordingDate", val |-> 82, data_type |-> "RecordingDate"],
       [name |-> "AAUXRecordingTime", val |-> 83, data_type |-> "RecordingTime"],
       [name |-> "AAUXBinaryGroup", val |-> 84, data_type |-> "BinaryGroup"],
       [name |-> "VAUXRecordingDate", val |-> 98, data_type |-> "RecordingDate"],
       [name |-> "VAUXRecordingTime", val |-> 99, data_type |-> "RecordingTime"],
       [name |-> "VAUXBinaryGroup", val |-> 100, data_type |-> "BinaryGroup"],
       [name |-> "NoInfo", val |-> 255, data_type |-> "NoInfo"] >>

\* index of the first match arm that accepts the byte, 0 when only the catch-all does
FirstArmForValue(value) ==
    IF \E i \in 1..Len(TypeList) : TypeList[i].val = value
    THEN CHOOSE i \in 1..Len(TypeList) :
             /\ TypeList[i].val = value
             /\ \A j \in 1..(i - 1) : TypeList[j].val # value
    ELSE 0

\* a Type is <<name>> for a listed type and <<"Unknown", byte>> for Type::Unknown
UnknownType(unk) == <<"Unknown", unk>>

\* impl From<u8> for Type
Type_from_u8(value) ==
    IF FirstArmForValue(value) # 0
    THEN <<TypeList[FirstArmForValue(value)].name>>
    ELSE UnknownType(value)

\* the TypeList entry of a listed Type
TypeEntry(ty) == TypeList[CHOOSE i \in 1..Len(TypeList) : TypeList[i].name = ty[1]]

\* impl From<Type> for u8
u8_from_Type(ty) == IF ty[1] = "Unknown" THEN ty[2] ELSE TypeEntry(ty).val

\* a NoInfo decode that accepts only the all-ones payload
NoInfo_try_from_raw_AllOnesOnly(p, c) ==
    IF p = <<255, 255, 255, 255>> THEN Ok([no_info |-> TRUE])
    ELSE Err(Whatever("payload of a no-information pack is not FF FF FF FF", ""))

\* PackData::try_from_raw for NoInfo: the payload is discarded
NoInfo_try_from_raw(p, c) == Ok([no_info |-> TRUE])

\* ValidPackDataTrait::to_raw for NoInfo
NoInfo_to_raw(v, c) == Bytes(<<255, 255, 255, 255>>)

\* PackData::try_from_raw for Unparsed
Unparsed_try_from_raw(p, c) == Ok([data |-> p])

\* an Unparsed that writes the no-information payload instead of its bytes
Unparsed_to_raw_Sentinel(v, c) == Bytes(<<255, 255, 255, 255>>)

\* ValidPackDataTrait::to_raw for Unparsed
Unparsed_to_raw(v, c) == Bytes(v.data)

\* T::try_from_raw, by data type
PackData_try_from_raw(data_type, p, c) ==
    CASE data_type = "TitleTimecode" -> TitleTimecode_try_from_raw(p, c)
      [] data_type = "RecordingTime" -> RecordingTime_try_from_raw(p, c)
      [] data_type = "RecordingDate" -> RecordingDate_try_from_raw(p, c)
      [] data_type = "BinaryGroup" -> BinaryGroup_try_from_raw(p, c)
      [] data_type = "NoInfo" -> NoInfo_try_from_raw(p, c)
      [] data_type = "Unparsed" -> Unparsed_try_from_raw(p, c)

\* Validate::validate_with, by data type: the report, empty when the value is valid
PackData_validate(data_type, v, c) ==
    CASE data_type = "TitleTimecode" -> TitleTimecode_validate(v, c, <<>>)
      [] data_type = "RecordingTime" -> RecordingTime_validate(v, c, <<>>)
      [] data_type = "RecordingDate" -> RecordingDate_validate(v, c, <<>>)
      [] data_type = "BinaryGroup" -> <<>>
      [] data_type = "NoInfo" -> <<>>
      [] data_type = "Unparsed" -> <<>>

\* a validation failure reported as a decode failure
validate_with_AsDecodeError(data_type, v, c) ==
    LET report == PackData_validate(data_type, v, c)
    IN  IF report = <<>> THEN Ok(v)
        ELSE Err(Whatever("value failed validation", ""))

\* Unvalidated::new(v).validate_with(ctx): the only way a ValidPack is made
validate_with(data_type, v, c) ==
    LET report == PackData_validate(data_type, v, c)
    IN  IF report = <<>> THEN Ok(v) ELSE Err(PackValidation(report))

\* a decode that wraps the value without validating it
ValidPack_try_from_raw_Unvalidated(data_type, p, c) ==
    PackData_try_from_raw(data_type, p, c)

\* ValidPackDataTrait::try_from_raw: decode, then validate
ValidPack_try_from_raw(data_type, p, c) ==
    The({
        IF ~unvalidated.ok THEN unvalidated
        ELSE validate_with(data_type, unvalidated.val, c)
        : unvalidated \in {PackData_try_from_raw(data_type, p, c)}})

\* Unvalidated::<AAUXSource>::new(v).validate_with(ctx)
AAUXSource_validate_with(v, c) ==
    The({
        IF report = <<>> THEN Ok(v) ELSE Err(PackValidation(report))
        : report \in {AAUXSource_validate(v, c, <<>>)}})

\* ValidPackDataTrait::try_from_raw for AAUXSource: decode, then validate
ValidPack_AAUXSource_try_from_raw(p, c) ==
    The({
        IF ~unvalidated.ok THEN unvalidated
        ELSE AAUXSource_validate_with(unvalidated.val, c)
        : unvalidated \in {AAUXSource_try_from_raw(p, c)}})

\* ValidPackDataTrait::to_raw, by data type
ValidPack_to_raw(data_type, v, c) ==
    CASE data_type = "TitleTimecode" -> TitleTimecode_to_raw(v, c)
      [] data_type = "RecordingTime" -> RecordingTime_to_raw(v, c)
      [] data_type = "RecordingDate" -> RecordingDate_to_raw(v, c)
      [] data_type = "BinaryGroup" -> BinaryGroup_to_raw(v, c)
      [] data_type = "NoInfo" -> NoInfo_to_raw(v, c)
      [] data_type = "Unparsed" -> Unparsed_to_raw(v, c)

Payload(r) == <<r[2], r[3], r[4], r[5]>>

\* the three shapes of Pack
TypedPack(name, data) == [variant |-> name, data |-> data]

InvalidPack(ty, data) == [variant |-> "Invalid", ty |-> ty, data |-> data]

UnknownPack(unk, data) == [variant |-> "Unknown", unk |-> unk, data |-> data]

\* a from_raw that returns the Invalid pack but drops the error
Pack_from_raw_ErrorDropped(r, c) ==
    LET ty == Type_from_u8(r[1])
        unparsed == ValidPack_try_from_raw("Unparsed", Payload(r), c)
    IN  IF ty[1] = "Unknown"
        THEN [pack |-> UnknownPack(ty[2], unparsed.val), err |-> None,
              panic |-> ~unparsed.ok]
        ELSE The({
                 IF deser.ok
                 THEN [pack |-> TypedPack(ty[1], deser.val), err |-> None,
                       panic |-> FALSE]
                 ELSE [pack |-> InvalidPack(ty, unparsed.val), err |-> None,
                       panic |-> ~unparsed.ok]
                 : deser \in {ValidPack_try_from_raw(TypeEntry(ty).data_type,
                                                     Payload(r), c)}})

\* Pack::from_raw: the pack, the optional error, and whether an unwrap panicked
Pack_from_raw(r, c) ==
    LET ty == Type_from_u8(r[1])
        unparsed == ValidPack_try_from_raw("Unparsed", Payload(r), c)
    IN  IF ty[1] = "Unknown"
        THEN [pack |-> UnknownPack(ty[2], unparsed.val), err |-> None,
              panic |-> ~unparsed.ok]
        ELSE The({
                 IF deser.ok
                 THEN [pack |-> TypedPack(ty[1], deser.val), err |-> None,
                       panic |-> FALSE]
                 ELSE [pack |-> InvalidPack(ty, unparsed.val), err |-> Some(deser.err),
                       panic |-> ~unparsed.ok]
                 : deser \in {ValidPack_try_from_raw(TypeEntry(ty).data_type,
                                                     Payload(r), c)}})

\* Pack::pack_type
pack_type(p) ==
    IF p.variant = "Invalid" THEN p.ty
    ELSE IF p.variant = "Unknown" THEN UnknownType(p.unk)
    ELSE <<p.variant>>

\* Pack::to_raw: the header byte re-attached to the payload of the variant
Pack_to_raw(p, c) ==
    LET hdr == IF p.variant = "Unknown" THEN p.unk ELSE u8_from_Type(pack_type(p))
    IN  The({
            IF ser.panic THEN Panic ELSE Bytes(<<hdr>> \o ser.bytes)
            : ser \in {IF p.variant \in {"Invalid", "Unknown"}
                       THEN ValidPack_to_raw("Unparsed", p.data, c)
                       ELSE ValidPack_to_raw(TypeEntry(<<p.variant>>).data_type,
                                             p.data, c)}})

-----------------------------------------------------------------------------
(* The codec as a caller drives it: decode a record, encode the pack, decode   *)
(* the encoded bytes again.                                                    *)

\* sample bytes per payload position; the first Num... of each list are drawn
PC1Samples == <<255, 0, 65, 41, 26, 191, 128, 213, 48>>

PC2Samples == <<255, 0, 48, 217, 127, 74, 96, 231, 1>>

PC3Samples == <<255, 0, 34, 129, 127, 225, 1, 31, 89>>

PC4Samples == <<255, 0, 35, 63, 227, 117, 116, 26, 48>>

\* headers that no entry of TypeList carries
UnknownHeaderSamples == <<254, 0, 80, 18>>

NumPC1 == 6

NumPC2 == 6

NumPC3 == 6

NumPC4 == 6

NumUnknownHeaders == 2

Prefix(seq, n) == {seq[i] : i \in 1..n}

HeaderSamples ==
    {TypeList[i].val : i \in 1..Len(TypeList)}
        \cup Prefix(UnknownHeaderSamples, NumUnknownHeaders)

RawSamples ==
    {<<h, b1, b2, b3, b4>> :
        h \in HeaderSamples, b1 \in Prefix(PC1Samples, NumPC1),
        b2 \in Prefix(PC2Samples, NumPC2), b3 \in Prefix(PC3Samples, NumPC3),
        b4 \in Prefix(PC4Samples, NumPC4)}

Init ==
    /\ pc = "start"
    /\ raw \in RawSamples
    /\ ctx \in PackContexts
    /\ pack = <<>> /\ err = None /\ panicked = FALSE
    /\ encCtx = ctx /\ out = <<>> /\ pack2 = <<>> /\ err2 = None
    /\ val = <<>> /\ code = 0 /\ tbl = "" /\ back = <<>>
    /\ LazyIdle

\* Pack::from_raw(&raw, &ctx)
FromRaw ==
    /\ pc = "start"
    /\ \E res \in {Pack_from_raw(raw, ctx)} :
           /\ pack' = res.pack
           /\ err' = res.err
           /\ panicked' = res.panic
    /\ pc' = "pack"
    /\ UNCHANGED <<raw, ctx, encCtx, out, pack2, err2, val, code, tbl, back,
                   lazyVars>>

\* pack.to_raw(&c), for any context c the caller passes
ToRaw ==
    /\ pc = "pack"
    /\ ~panicked
    /\ \E c \in PackContexts :
        \E res \in {Pack_to_raw(pack, c)} :
           /\ encCtx' = c
           /\ out' = res
           /\ panicked' = res.panic
    /\ pc' = "encoded"
    /\ UNCHANGED <<raw, ctx, pack, err, pack2, err2, val, code, tbl, back,
                   lazyVars>>

\* Pack::from_raw(&out, &ctx) on the encoded bytes
FromRawAgain ==
    /\ pc = "encoded"
    /\ ~panicked
    /\ \E res \in {Pack_from_raw(out.bytes, ctx)} :
           /\ pack2' = res.pack
           /\ err2' = res.err
           /\ panicked' = res.panic
    /\ pc' = "redecoded"
    /\ UNCHANGED <<raw, ctx, pack, err, encCtx, out, val, code, tbl, back,
                   lazyVars>>

Next == FromRaw \/ ToRaw \/ FromRawAgain

Spec == Init /\ [][Next]_vars

-----------------------------------------------------------------------------
(* Vocabulary of the properties, stated on the bytes of the record *)

RegisteredHeaders == {19, 20, 82, 83, 84, 98, 99, 100, 255}

HeaderName(h) ==
    CASE h = 19 -> "TitleTimecode"
      [] h = 20 -> "TitleBinaryGroup"
      [] h = 82 -> "AAUXRecordingDate"
      [] h = 83 -> "AAUXRecordingTime"
      [] h = 84 -> "AAUXBinaryGroup"
      [] h = 98 -> "VAUXRecordingDate"
      [] h = 99 -> "VAUXRecordingTime"
      [] h = 100 -> "VAUXBinaryGroup"
      [] h = 255 -> "NoInfo"

HeaderDataType(h) ==
    CASE h = 19 -> "TitleTimecode"
      [] h \in {20, 84, 100} -> "BinaryGroup"
      [] h \in {82, 98} -> "RecordingDate"
      [] h \in {83, 99} -> "RecordingTime"
      [] h = 255 -> "NoInfo"

TitleHeaders == {19}

RecordingTimeHeaders == {83, 99}

TimeHeaders == TitleHeaders \cup RecordingTimeHeaders

DateHeaders == {82, 98}

IsTyped(p) == p.variant \notin {"Invalid", "Unknown"}

Decoded == pc \in {"pack", "encoded", "redecoded"} /\ raw # <<>>

\* a BCD field of the payload is absent when all of its bits are set
AllOnes(p, lo, hi) == Bits(p, lo, hi) = Pow2(hi - lo + 1) - 1

\* a BCD field whose digits are neither the absent pattern nor two decimal digits
BadDigits(p, ulo, tlo, thi) ==
    /\ ~(AllOnes(p, ulo, ulo + 3) /\ AllOnes(p, tlo, thi))
    /\ (Bits(p, ulo, ulo + 3) > 9 \/ Bits(p, tlo, thi) > 9)

FrameAbsent(p) == AllOnes(p, 0, 3) /\ AllOnes(p, 4, 5)

SecondAbsent(p) == AllOnes(p, 8, 11) /\ AllOnes(p, 12, 14)

MinuteAbsent(p) == AllOnes(p, 16, 19) /\ AllOnes(p, 20, 22)

HourAbsent(p) == AllOnes(p, 24, 27) /\ AllOnes(p, 28, 29)

TimeAllAbsent(p) == HourAbsent(p) /\ MinuteAbsent(p) /\ SecondAbsent(p)

TimeAllPresent(p) == ~HourAbsent(p) /\ ~MinuteAbsent(p) /\ ~SecondAbsent(p)

TzAbsent(p) == AllOnes(p, 0, 3) /\ AllOnes(p, 4, 5)

DayAbsent(p) == AllOnes(p, 8, 11) /\ AllOnes(p, 12, 13)

MonthAbsent(p) == AllOnes(p, 16, 19) /\ AllOnes(p, 20, 20)

YearAbsent(p) == AllOnes(p, 24, 27) /\ AllOnes(p, 28, 31)

DateAllAbsent(p) == YearAbsent(p) /\ MonthAbsent(p) /\ DayAbsent(p)

DateAllPresent(p) == ~YearAbsent(p) /\ ~MonthAbsent(p) /\ ~DayAbsent(p)

-----------------------------------------------------------------------------
(* C1 *)

\* C1: Pack::from_raw returns for every record and context without panicking; a
\* registered header whose payload decodes and validates gives that type's variant
\* and no error, a registered header whose payload fails gives Invalid(type,
\* payload) and an error, an unregistered header gives Unknown(header, payload)
\* and no error; the error is present exactly when the pack is Invalid.
C1_FromRawTotal ==
    Decoded =>
        /\ (pc = "pack" => ~panicked)
        /\ (IsSome(err) <=> pack.variant = "Invalid")
        /\ (raw[1] \notin RegisteredHeaders =>
                /\ pack = UnknownPack(raw[1], [data |-> Payload(raw)])
                /\ IsNone(err))
        /\ (raw[1] \in RegisteredHeaders =>
                LET d == ValidPack_try_from_raw(HeaderDataType(raw[1]), Payload(raw), ctx)
                IN  IF d.ok
                    THEN pack = TypedPack(HeaderName(raw[1]), d.val) /\ IsNone(err)
                    ELSE /\ pack = InvalidPack(<<HeaderName(raw[1])>>,
                                               [data |-> Payload(raw)])
                         /\ err = Some(d.err))

\* a registered record that failed validation came back as Invalid with its error
C1_Witness ==
    /\ pc = "pack" /\ ~panicked
    /\ raw[1] = 19
    /\ pack.variant = "Invalid"
    /\ IsSome(err) /\ err[1].kind = "PackValidation"

-----------------------------------------------------------------------------
(* C2 *)

\* C2: an Invalid or Unknown pack carries the payload bytes verbatim together with
\* the type or header of the first byte, and Pack::to_raw under the same context
\* returns exactly the record that was decoded.
C2_UnparsedPreserved ==
    (Decoded /\ ~IsTyped(pack)) =>
        /\ pack.data = [data |-> Payload(raw)]
        /\ (pack.variant = "Unknown" =>
                raw[1] \notin RegisteredHeaders /\ pack.unk = raw[1])
        /\ (pack.variant = "Invalid" =>
                raw[1] \in RegisteredHeaders /\ pack.ty = <<HeaderName(raw[1])>>)
        /\ ((pc = "encoded" /\ encCtx = ctx) => out = Bytes(raw))

\* a record of a registered type that failed to decode was encoded again
C2_Witness ==
    /\ pc = "encoded" /\ encCtx = ctx
    /\ pack.variant = "Invalid"
    /\ err[1].kind = "Whatever"
    /\ out.bytes = raw

-----------------------------------------------------------------------------
(* C3 *)

\* the payload bits whose value is not carried by the decoded value because the
\* field they qualify is absent: the whole payload of a no-information pack, the
\* drop-frame bit of a recording time without a time, the half-hour and
\* daylight-saving bits of a date without a timezone
AbsentDependentBits(r) ==
    IF r[1] = 255 THEN 0..31
    ELSE IF r[1] \in RecordingTimeHeaders /\ TimeAllAbsent(Payload(r)) THEN {6}
    ELSE IF r[1] \in DateHeaders /\ TzAbsent(Payload(r)) THEN {6, 7}
    ELSE {}

\* C3: for a record that decodes to a validated typed pack, encoding under the same
\* context gives the record back bit for bit, except that bits qualifying an absent
\* field are rewritten to ones.
C3_EncodeDecodeBytes ==
    (pc = "encoded" /\ raw # <<>> /\ encCtx = ctx /\ IsTyped(pack)) =>
        /\ ~out.panic
        /\ out.bytes[1] = raw[1]
        /\ \A i \in 0..31 :
              \/ Bit(Payload(out.bytes), i) = Bit(Payload(raw), i)
              \/ /\ i \in AbsentDependentBits(raw)
                 /\ Bit(Payload(out.bytes), i) = 1

\* a date without a timezone whose half-hour bit was clear was rewritten
C3_Witness ==
    /\ pc = "encoded" /\ raw # <<>> /\ encCtx = ctx
    /\ pack.variant = "VAUXRecordingDate"
    /\ IsSome(pack.data.date) /\ IsSome(pack.data.weekday)
    /\ Bit(Payload(raw), 6) = 0
    /\ Bit(Payload(out.bytes), 6) = 1

-----------------------------------------------------------------------------
(* C5 *)

\* the validation rules of a time value, frame number optional
TimeRulesHold(t, sys) ==
    /\ t.hour \in 0..23 /\ t.minute \in 0..59 /\ t.second \in 0..59
    /\ IsSome(t.frame) =>
          IF sys = Sys525_60
          THEN /\ t.frame[1] <= 29
               /\ ~(t.drop_frame /\ t.minute % 10 # 0 /\ t.second = 0
                    /\ t.frame[1] \in {0, 1})
          ELSE t.frame[1] <= 24

\* the validation rules of a recording date
DateRulesHold(v) ==
    /\ IsSome(v.date) => v.date[1].year \in 1975..2074
    /\ IsSome(v.weekday) => IsSome(v.date) /\ weekday(v.date[1]) = v.weekday[1]
    /\ IsSome(v.timezone) => v.timezone[1] >= 0 /\ v.timezone[1] % 1800 = 0
    /\ IsSome(v.daylight_saving_time) <=> IsSome(v.timezone)

\* every validation rule of the type of the typed pack p holds under context c
RulesHold(p, c) ==
    LET sys == system(c.file_info)
        dt == HeaderDataType(CHOOSE h \in RegisteredHeaders : HeaderName(h) = p.variant)
    IN  CASE dt = "TitleTimecode" ->
                /\ TimeRulesHold([hour |-> p.data.timecode.time.hour,
                                  minute |-> p.data.timecode.time.minute,
                                  second |-> p.data.timecode.time.second,
                                  drop_frame |-> p.data.timecode.time.drop_frame,
                                  frame |-> Some(p.data.timecode.time.frame)], sys)
                /\ p.data.blank_flag = p.data.timecode.color_frame
          [] dt = "RecordingTime" ->
                IsSome(p.data.time) => TimeRulesHold(p.data.time[1], sys)
          [] dt = "RecordingDate" -> DateRulesHold(p.data)
          [] OTHER -> TRUE

\* C5: every typed pack a decode returns satisfies every validation rule of its
\* type under the context of that decode call.
C5_TypedPacksAreValid ==
    /\ (Decoded /\ IsTyped(pack)) => RulesHold(pack, ctx)
    /\ (pc = "redecoded" /\ IsTyped(pack2)) => RulesHold(pack2, ctx)

\* a payload that decodes but breaks the drop-frame rule did not become a typed pack
C5_Witness ==
    /\ pc = "pack" /\ raw[1] = 99
    /\ PackData_try_from_raw("RecordingTime", Payload(raw), ctx).ok
    /\ ~IsTyped(pack)
    /\ err[1].kind = "PackValidation"

-----------------------------------------------------------------------------
(* C6 *)

\* a failure that the bits of one field decide on their own: a BCD digit above 9,
\* a timezone hour of 24 or more, a month or day outside any calendar, or the
\* absent pattern in the time or frame number that a title timecode requires
SingleFieldDefect(r) ==
    LET p == Payload(r)
    IN  \/ /\ r[1] \in TimeHeaders
           /\ \/ BadDigits(p, 24, 28, 29) \/ BadDigits(p, 16, 20, 22)
              \/ BadDigits(p, 8, 12, 14) \/ BadDigits(p, 0, 4, 5)
        \/ /\ r[1] \in TitleHeaders
           /\ (TimeAllAbsent(p) \/ FrameAbsent(p))
        \/ /\ r[1] \in DateHeaders
           /\ \/ BadDigits(p, 24, 28, 31) \/ BadDigits(p, 16, 20, 20)
              \/ BadDigits(p, 8, 12, 13) \/ BadDigits(p, 0, 4, 5)
              \/ ~TzAbsent(p) /\ 10 * Bits(p, 4, 5) + Bits(p, 0, 3) >= 24
              \/ ~MonthAbsent(p) /\ 10 * Bit(p, 20) + Bits(p, 16, 19) \notin 1..12
              \/ ~DayAbsent(p) /\ 10 * Bits(p, 12, 13) + Bits(p, 8, 11) \notin 1..31

\* a failure that only the combination of several fields decides
CrossFieldDecodeDefect(r) ==
    LET p == Payload(r)
        yy == 10 * Bits(p, 28, 31) + Bits(p, 24, 27)
        year == yy + (IF yy < 75 THEN 2000 ELSE 1900)
        month == 10 * Bit(p, 20) + Bits(p, 16, 19)
        day == 10 * Bits(p, 12, 13) + Bits(p, 8, 11)
    IN  \/ /\ r[1] \in TimeHeaders
           /\ \/ ~TimeAllAbsent(p) /\ ~TimeAllPresent(p)
              \/ TimeAllAbsent(p) /\ ~FrameAbsent(p)
        \/ /\ r[1] \in DateHeaders
           /\ \/ ~DateAllAbsent(p) /\ ~DateAllPresent(p)
              \/ /\ DateAllPresent(p)
                 /\ month \in 1..12 /\ day \in 1..31
                 /\ day > DaysInMonth(year, month)

DecodeFailed == IsSome(err) /\ err[1].kind = "Whatever"

-----------------------------------------------------------------------------
(* C7 *)

\* C7: a time payload with hour, minute and second neither all present nor all
\* absent, or with a frame number but no time, fails to decode; a title timecode
\* also fails when the time or the frame number is absent; a date payload with
\* year, month and day neither all present nor all absent fails to decode; each
\* failure comes back as an Invalid pack holding the payload.
C7_PresenceFailures ==
    LET p == Payload(raw)
        inconsistent ==
            \/ /\ raw[1] \in TimeHeaders
               /\ \/ ~TimeAllAbsent(p) /\ ~TimeAllPresent(p)
                  \/ TimeAllAbsent(p) /\ ~FrameAbsent(p)
            \/ /\ raw[1] \in TitleHeaders
               /\ (TimeAllAbsent(p) \/ FrameAbsent(p))
            \/ /\ raw[1] \in DateHeaders
               /\ ~DateAllAbsent(p) /\ ~DateAllPresent(p)
    IN  (Decoded /\ inconsistent) =>
            /\ DecodeFailed
            /\ pack = InvalidPack(<<HeaderName(raw[1])>>, [data |-> p])

\* a title timecode with a time but no frame number came back Invalid
C7_Witness ==
    /\ pc = "pack" /\ raw[1] = 19
    /\ TimeAllPresent(Payload(raw)) /\ FrameAbsent(Payload(raw))
    /\ ~BadDigits(Payload(raw), 24, 28, 29) /\ ~BadDigits(Payload(raw), 16, 20, 22)
    /\ ~BadDigits(Payload(raw), 8, 12, 14)
    /\ pack.variant = "Invalid"

-----------------------------------------------------------------------------
(* C10 *)

PCBit(sys) == IF sys = Sys525_60 THEN 15 ELSE 31

BGFBits(sys) == IF sys = Sys525_60 THEN <<23, 30, 31>> ELSE <<15, 30, 23>>

TimecodeOf(p) == IF p.variant = "TitleTimecode" THEN p.data.timecode ELSE p.data

\* C10: decode reads polarity correction and the binary group flag from the bit
\* positions of the context's system and the colour frame from bit 7 under both;
\* encode writes them to the positions of the system it is given, so decode then
\* encode under one system keeps bits 15, 23, 30 and 31.
C10_SystemLayouts ==
    (Decoded /\ raw[1] \in TimeHeaders /\ IsTyped(pack)) =>
        LET tc == TimecodeOf(pack)
            p == Payload(raw)
            s == system(ctx.file_info)
        IN  /\ tc.polarity_correction = Bit(p, PCBit(s))
            /\ tc.binary_group_flag = BitList(p, BGFBits(s))
            /\ tc.color_frame = Bit(p, 7)
            /\ (pc = "encoded" /\ ~out.panic) =>
                  LET q == Payload(out.bytes)
                      e == system(encCtx.file_info)
                  IN  /\ Bit(q, PCBit(e)) = tc.polarity_correction
                      /\ BitList(q, BGFBits(e)) = tc.binary_group_flag
                      /\ Bit(q, 7) = tc.color_frame
                      /\ Bits(q, 0, 5) = Bits(p, 0, 5)
                      /\ Bits(q, 8, 14) = Bits(p, 8, 14)
                      /\ Bits(q, 16, 22) = Bits(p, 16, 22)
                      /\ Bits(q, 24, 29) = Bits(p, 24, 29)
            /\ (pc = "encoded" /\ encCtx = ctx) =>
                  /\ ~out.panic
                  /\ \A i \in {15, 23, 30, 31} :
                        Bit(Payload(out.bytes), i) = Bit(p, i)

\* a 625-50 timecode whose polarity bit and binary group flag bits differ was
\* encoded under 625-50
C10_Witness ==
    /\ pc = "encoded" /\ raw[1] \in TimeHeaders /\ IsTyped(pack)
    /\ system(ctx.file_info) = Sys625_50 /\ encCtx = ctx
    /\ TimecodeOf(pack).polarity_correction = 1
    /\ TimecodeOf(pack).binary_group_flag = 3
    /\ Bit(Payload(raw), 15) # Bit(Payload(raw), 23)
    /\ out.bytes = raw

-----------------------------------------------------------------------------
(* The codec driven from a value: a caller builds a pack value, validates it   *)
(* under a context, encodes the validated pack and decodes the bytes.          *)

\* sample field values; the first Num... of each list are drawn
HourSamples == <<0, 23, 24, 12, 9>>

MinuteSamples == <<1, 10, 60, 59, 0>>

SecondSamples == <<0, 59, 60, 30, 1>>

FrameSamples == <<0, 24, 25, 29, 30, 2, 1>>

DateSamples ==
    << [year |-> 2023, month |-> 1, day |-> 19],
       [year |-> 1975, month |-> 1, day |-> 1],
       [year |-> 1974, month |-> 12, day |-> 31],
       [year |-> 2074, month |-> 12, day |-> 31],
       [year |-> 2075, month |-> 1, day |-> 1],
       [year |-> 2000, month |-> 2, day |-> 29],
       [year |-> 1999, month |-> 12, day |-> 31] >>

WeekdaySamples == <<"Thu", "Wed", "Mon", "Sun", "Tue">>

TimezoneSamples == <<0, 1800, 68400, 84600, -3600, 900, 3600, 45000>>

FlagSamples == << <<0, 0, 0>>, <<1, 0, 5>>, <<0, 1, 3>>, <<1, 1, 7>>, <<1, 0, 2>> >>

GroupSamples ==
    << <<0, 0, 0, 0, 0, 0, 0, 0>>, <<15, 15, 15, 15, 15, 15, 15, 15>>,
       <<1, 2, 3, 4, 5, 6, 7, 8>>, <<9, 0, 10, 0, 11, 0, 12, 0>>,
       <<0, 15, 0, 15, 0, 15, 0, 15>> >>

NumTimeSamples == 3

NumFrameSamples == 5

NumDateSamples == 6

NumWeekdaySamples == 3

NumTimezoneSamples == 6

NumFlagSamples == 4

NumGroupSamples == 3

Optional(S) == {None} \cup {Some(x) : x \in S}

\* TimeValue<Option<u8>> values
TimeValueWithOptionalFrameSamples ==
    [hour : Prefix(HourSamples, NumTimeSamples),
     minute : Prefix(MinuteSamples, NumTimeSamples),
     second : Prefix(SecondSamples, NumTimeSamples),
     drop_frame : BOOLEAN,
     frame : Optional(Prefix(FrameSamples, NumFrameSamples))]

\* TimeValue<u8> values
TimeValueWithRequiredFrameSamples ==
    [hour : Prefix(HourSamples, NumTimeSamples),
     minute : Prefix(MinuteSamples, NumTimeSamples),
     second : Prefix(SecondSamples, NumTimeSamples),
     drop_frame : BOOLEAN,
     frame : Prefix(FrameSamples, NumFrameSamples)]

RecordingTimeSamples ==
    {[time |-> t, color_frame |-> f[1], polarity_correction |-> f[2],
      binary_group_flag |-> f[3]] :
        t \in Optional(TimeValueWithOptionalFrameSamples),
        f \in Prefix(FlagSamples, NumFlagSamples)}

TitleTimecodeSamples ==
    {[timecode |-> [time |-> t, color_frame |-> f[1], polarity_correction |-> f[2],
                    binary_group_flag |-> f[3]],
      blank_flag |-> b] :
        t \in TimeValueWithRequiredFrameSamples,
        f \in Prefix(FlagSamples, NumFlagSamples),
        b \in {0, 1}}

RecordingDateSamples ==
    [date : Optional(Prefix(DateSamples, NumDateSamples)),
     weekday : Optional(Prefix(WeekdaySamples, NumWeekdaySamples)),
     timezone : Optional(Prefix(TimezoneSamples, NumTimezoneSamples)),
     daylight_saving_time : Optional({0, 1}),
     reserved : {0, 3}]

BinaryGroupSamples == {[group_data |-> g] : g \in Prefix(GroupSamples, NumGroupSamples)}

DataSamples(data_type) ==
    CASE data_type = "TitleTimecode" -> TitleTimecodeSamples
      [] data_type = "RecordingTime" -> RecordingTimeSamples
      [] data_type = "RecordingDate" -> RecordingDateSamples
      [] data_type = "BinaryGroup" -> BinaryGroupSamples
      [] data_type = "NoInfo" -> {[no_info |-> TRUE]}

\* a pack variant applied to an unvalidated value of its data type
ValueSamples ==
    UNION {{[variant |-> TypeList[i].name, data |-> d] :
                d \in DataSamples(TypeList[i].data_type)} : i \in 1..Len(TypeList)}

InitValue ==
    /\ pc = "value"
    /\ val \in ValueSamples
    /\ ctx \in PackContexts
    /\ raw = <<>> /\ pack = <<>> /\ err = None /\ panicked = FALSE
    /\ encCtx = ctx /\ out = <<>> /\ pack2 = <<>> /\ err2 = None
    /\ code = 0 /\ tbl = "" /\ back = <<>>
    /\ LazyIdle

\* Unvalidated::new(value).validate_with(&ctx), wrapped in the pack variant on success
Validate ==
    /\ pc = "value"
    /\ \E res \in {validate_with(TypeEntry(<<val.variant>>).data_type, val.data, ctx)} :
           IF res.ok
           THEN pack' = TypedPack(val.variant, res.val) /\ err' = None /\ pc' = "pack"
           ELSE pack' = <<>> /\ err' = Some(res.err) /\ pc' = "rejected"
    /\ UNCHANGED <<raw, ctx, panicked, encCtx, out, pack2, err2, val, code, tbl, back,
                   lazyVars>>

NextValue == Validate \/ ToRaw \/ FromRawAgain

SpecValue == InitValue /\ [][NextValue]_vars

\* C4: a validated value, encoded and decoded under the context it was validated
\* with, encodes without panic and decodes with no error to the same typed variant
\* holding the same value.
C4_DecodeEncodedValue ==
    /\ (pc = "encoded" /\ encCtx = ctx) => ~out.panic
    /\ (pc = "redecoded" /\ encCtx = ctx) =>
          /\ IsNone(err2)
          /\ pack2.variant = val.variant
          /\ pack2 = TypedPack(val.variant, val.data)

\* a date with a weekday and a half-hour timezone went through encode and decode
C4_Witness ==
    /\ pc = "redecoded" /\ encCtx = ctx
    /\ val.variant = "VAUXRecordingDate"
    /\ IsSome(val.data.date) /\ IsSome(val.data.weekday)
    /\ val.data.timezone = Some(1800)
    /\ pack2 = pack

-----------------------------------------------------------------------------
(* Type <-> header byte conversions, driven from either side                   *)

\* every value of the Type enum: the listed variants and Unknown(b) for every byte
TypeValues ==
    {<<TypeList[i].name>> : i \in 1..Len(TypeList)} \cup {UnknownType(b) : b \in 0..255}

InitType ==
    /\ \/ pc = "byte" /\ code \in 0..255 /\ val = <<>>
       \/ pc = "type" /\ val \in TypeValues /\ code = 0
    /\ raw = <<>> /\ ctx = NTSC /\ pack = <<>> /\ err = None /\ panicked = FALSE
    /\ encCtx = NTSC /\ out = <<>> /\ pack2 = <<>> /\ err2 = None
    /\ tbl = "" /\ back = <<>>
    /\ LazyIdle

\* Type::from(byte): on the given byte, or on the byte a given Type converted to
TypeFromU8 ==
    /\ \/ pc = "byte" /\ val' = Type_from_u8(code) /\ pc' = "byte_type"
          /\ UNCHANGED back
       \/ pc = "type_byte" /\ back' = Type_from_u8(code) /\ pc' = "type_byte_type"
          /\ UNCHANGED val
    /\ UNCHANGED <<raw, ctx, pack, err, panicked, encCtx, out, pack2, err2, code, tbl,
                   lazyVars>>

\* u8::from(type): on the given Type, or on the Type a given byte converted to
U8FromType ==
    /\ \/ pc = "type" /\ code' = u8_from_Type(val) /\ pc' = "type_byte"
          /\ UNCHANGED back
       \/ pc = "byte_type" /\ back' = <<u8_from_Type(val)>> /\ pc' = "byte_type_byte"
          /\ UNCHANGED code
    /\ UNCHANGED <<raw, ctx, pack, err, panicked, encCtx, out, pack2, err2, val, tbl,
                   lazyVars>>

NextType == TypeFromU8 \/ U8FromType

SpecType == InitType /\ [][NextType]_vars

\* C8: the byte -> Type -> byte conversion returns the byte, the Type -> byte ->
\* Type conversion returns the Type, for every byte and every Type value, and no
\* two listed types have the same header byte.
C8_Bijection ==
    /\ pc = "byte_type_byte" => back = <<code>>
    /\ pc = "type_byte_type" => back = val
    /\ \A i, j \in 1..Len(TypeList) : i # j => TypeList[i].val # TypeList[j].val

-----------------------------------------------------------------------------
(* Lookup tables: playback speed, iris, focus position *)

RECURSIVE Gcd(_, _)
Gcd(a, b) == IF b = 0 THEN a ELSE Gcd(b, a % b)

\* Ratio::new: the fraction in lowest terms, as <<numerator, denominator>>
Ratio_new(n, d) == <<n \div Gcd(n, d), d \div Gcd(n, d)>>

\* Ratio::from(2).pow(e); a negative exponent takes the reciprocal
Ratio_pow2(e) == IF e >= 0 THEN <<Pow2(e), 1>> ELSE <<1, Pow2(-e)>>

Ratio_add(x, y) == Ratio_new(x[1] * y[2] + y[1] * x[2], x[2] * y[2])

Ratio_div(x, y) == Ratio_new(x[1] * y[2], x[2] * y[1])

\* a table whose code 0x01, "slower than 1/16", is given the value 1/16 of code 0x02
PLAYBACK_SPEED_BITS_TO_RATIO_SlowAsSixteenth(speed_bits) ==
    LET coarse_bits == speed_bits \div 16
        fine_bits == speed_bits % 16
    IN  IF speed_bits = 0 THEN Some(<<0, 1>>)
        ELSE IF speed_bits = 1 THEN Some(Ratio_new(1, 16))
        ELSE IF coarse_bits = 0 THEN Some(Ratio_new(1, 18 - fine_bits))
        ELSE IF speed_bits = 127 THEN None
        ELSE Some(Ratio_add(Ratio_pow2(-1 + coarse_bits - 1),
                            Ratio_div(<<fine_bits, 1>>, Ratio_pow2(6 - coarse_bits))))

\* PLAYBACK_SPEED_BITS_TO_RATIO[speed_bits]
PLAYBACK_SPEED_BITS_TO_RATIO(speed_bits) ==
    LET coarse_bits == speed_bits \div 16
        fine_bits == speed_bits % 16
    IN  IF speed_bits = 0 THEN Some(<<0, 1>>)
        ELSE IF speed_bits = 1 THEN Some(Ratio_new(1, 32))
        ELSE IF coarse_bits = 0 THEN Some(Ratio_new(1, 18 - fine_bits))
        ELSE IF speed_bits = 127 THEN None
        ELSE Some(Ratio_add(Ratio_pow2(-1 + coarse_bits - 1),
                            Ratio_div(<<fine_bits, 1>>, Ratio_pow2(6 - coarse_bits))))

\* 2^(k/8) for k = 0..7 in units of 10^-5: the fractional powers powf produces
EighthPowersOfTwo == <<100000, 109051, 118921, 129684, 141421, 154221, 168179, 183401>>

\* round_dp_with_strategy(1, MidpointAwayFromZero) of a value in units of 10^-5,
\* in tenths
round_dp_1(v) == (v + 5000) \div 10000

\* IRIS_BITS_TO_DECIMAL[iris_bits], a present value in tenths
IRIS_BITS_TO_DECIMAL(iris_bits) ==
    IF iris_bits = 61 THEN Some(0)
    ELSE IF iris_bits = 62 THEN Some(9999)
    ELSE IF iris_bits = 63 THEN None
    ELSE Some(round_dp_1(Pow2(iris_bits \div 8) * EighthPowersOfTwo[(iris_bits % 8) + 1]))

RECURSIVE Pow10(_)
Pow10(n) == IF n = 0 THEN 1 ELSE 10 * Pow10(n - 1)

\* FOCUS_POSITION_BITS_TO_CENTIMETERS[position_bits]
FOCUS_POSITION_BITS_TO_CENTIMETERS(position_bits) ==
    IF position_bits = 127 THEN None
    ELSE Some((position_bits \div 4) * Pow10(position_bits % 4))

\* HashMap::from_iter on a sequence of <<key, value>> pairs, then a lookup of k:
\* a later pair replaces an earlier pair with the same key
HashMap_get(pairs, k) ==
    IF \E i \in 1..Len(pairs) : pairs[i][1] = k
    THEN Some(pairs[CHOOSE i \in 1..Len(pairs) :
                        /\ pairs[i][1] = k
                        /\ \A j \in (i + 1)..Len(pairs) : pairs[j][1] # k][2])
    ELSE None

\* the pairs PLAYBACK_RATIO_TO_SPEED_BITS is collected from: iter().enumerate()
PLAYBACK_RATIO_TO_SPEED_BITS ==
    [i \in 1..128 |-> <<PLAYBACK_SPEED_BITS_TO_RATIO(i - 1), i - 1>>]

\* the pairs IRIS_DECIMAL_TO_IRIS_BITS is collected from: iter().enumerate()
IRIS_DECIMAL_TO_IRIS_BITS ==
    [i \in 1..64 |-> <<IRIS_BITS_TO_DECIMAL(i - 1), i - 1>>]

\* the focus pairs taken in array order, without the reversal
FOCUS_POSITION_CENTIMETERS_TO_BITS_ArrayOrder ==
    [i \in 1..128 |-> <<FOCUS_POSITION_BITS_TO_CENTIMETERS(i - 1), i - 1>>]

\* the pairs FOCUS_POSITION_CENTIMETERS_TO_BITS is collected from:
\* iter().enumerate().rev()
FOCUS_POSITION_CENTIMETERS_TO_BITS ==
    [i \in 1..128 |-> <<FOCUS_POSITION_BITS_TO_CENTIMETERS(128 - i), 128 - i>>]

Tables == {"playback_speed", "iris", "focus_position"}

\* the number of raw codes of a table: u7, u6, u7
TableSize(t) == IF t = "iris" THEN 64 ELSE 128

ForwardLookup(t, c) ==
    CASE t = "playback_speed" -> PLAYBACK_SPEED_BITS_TO_RATIO(c)
      [] t = "iris" -> IRIS_BITS_TO_DECIMAL(c)
      [] t = "focus_position" -> FOCUS_POSITION_BITS_TO_CENTIMETERS(c)

InverseLookup(t, v) ==
    CASE t = "playback_speed" -> HashMap_get(PLAYBACK_RATIO_TO_SPEED_BITS, v)
      [] t = "iris" -> HashMap_get(IRIS_DECIMAL_TO_IRIS_BITS, v)
      [] t = "focus_position" -> HashMap_get(FOCUS_POSITION_CENTIMETERS_TO_BITS, v)

InitLookup ==
    /\ pc = "code"
    /\ tbl \in Tables
    /\ code \in 0..(TableSize(tbl) - 1)
    /\ val = <<>> /\ back = <<>>
    /\ raw = <<>> /\ ctx = NTSC /\ pack = <<>> /\ err = None /\ panicked = FALSE
    /\ encCtx = NTSC /\ out = <<>> /\ pack2 = <<>> /\ err2 = None
    /\ LazyIdle

\* try_from_raw: the field value is the forward array indexed by the raw code
Forward ==
    /\ pc = "code"
    /\ val' = ForwardLookup(tbl, code)
    /\ pc' = "value"
    /\ UNCHANGED <<raw, ctx, pack, err, panicked, encCtx, out, pack2, err2, code, tbl,
                   back,
                   lazyVars>>

\* to_raw: the raw code is the inverse map indexed by the field value
Inverse ==
    /\ pc = "value"
    /\ back' = InverseLookup(tbl, val)
    /\ pc' = "code_again"
    /\ UNCHANGED <<raw, ctx, pack, err, panicked, encCtx, out, pack2, err2, code, tbl,
                   val,
                   lazyVars>>

NextLookup == Forward \/ Inverse

SpecLookup == InitLookup /\ [][NextLookup]_vars

\* the codes of table t whose forward value is v
CodesOf(t, v) == {c \in 0..(TableSize(t) - 1) : ForwardLookup(t, c) = v}

\* C9: the inverse lookup of a code's forward value finds an entry whose forward
\* value is that value; it is the code itself for playback speed and iris, and for
\* focus position, where several codes have the same value, it is the lowest of
\* them; the all-ones code is the only code whose value is absent, and absent maps
\* back to it.
C9_LookupRoundTrip ==
    /\ pc \in {"value", "code_again"} =>
          (IsNone(val) <=> code = TableSize(tbl) - 1)
    /\ pc = "code_again" =>
          /\ IsSome(back)
          /\ back[1] \in CodesOf(tbl, val)
          /\ tbl # "focus_position" => back[1] = code
          /\ tbl = "focus_position" =>
                \A c \in CodesOf(tbl, val) : back[1] <= c
          /\ IsNone(val) => back[1] = TableSize(tbl) - 1

\* focus codes 5 (1 x 10^1) and 40 (10 x 10^0) both mean 10 cm; 40 came back as 5
C9_Witness ==
    /\ pc = "code_again" /\ tbl = "focus_position"
    /\ code = 40 /\ val = Some(10) /\ back = Some(5)

-----------------------------------------------------------------------------
(* The lazily initialised lookup tables under concurrent first access.       *)
(* Each table is a static LazyLock: the first dereference runs the           *)
(* initialiser under the cell's one-time initialisation, a dereference that  *)
(* finds the initialiser running blocks until it has finished, and a         *)
(* dereference of an initialised cell returns a shared reference.            *)

\* the three statics of a table: the forward array, the inverse map built from
\* it, and the set of valid values built from the inverse map
Kinds == {"forward", "inverse", "valid"}

\* a dependency back from the forward array to the valid set
Depends_Cyclic(k) ==
    CASE k = "forward" -> Some("valid")
      [] k = "inverse" -> Some("forward")
      [] k = "valid" -> Some("inverse")

\* the static an initialiser dereferences before it builds its own value
Depends(k) ==
    CASE k = "forward" -> None
      [] k = "inverse" -> Some("forward")
      [] k = "valid" -> Some("inverse")

\* number of threads, of accesses each thread makes, and of steps in which an
\* initialiser fills its local value
NumThreads == 2

NumAccesses == 2

BuildSteps == 2

Threads == 1..NumThreads

\* entries of the local value filled after n steps of the initialiser's loop
Filled(n) == (TableSize(tbl) * n) \div BuildSteps

Frame(k, phase) == [cell |-> k, phase |-> phase, n |-> 0, src |-> None]

Top(t) == thr[t].stack[Len(thr[t].stack)]

Running(t, phase) == Len(thr[t].stack) > 0 /\ Top(t).phase = phase

SetTop(t, f) ==
    [thr EXCEPT ![t].stack = [@ EXCEPT ![Len(@)] = f]]

InitLazy ==
    /\ pc = "lazy"
    /\ tbl \in Tables
    /\ thr = [t \in Threads |-> [stack |-> <<>>, ref |-> None, left |-> NumAccesses]]
    /\ once = [k \in Kinds |-> "incomplete"]
    /\ cells = [k \in Kinds |-> 0]
    /\ builds = [k \in Kinds |-> 0]
    /\ seen = [t \in Threads |-> None]
    /\ raw = <<>> /\ ctx = NTSC /\ pack = <<>> /\ err = None /\ panicked = FALSE
    /\ encCtx = NTSC /\ out = <<>> /\ pack2 = <<>> /\ err2 = None
    /\ val = <<>> /\ code = 0 /\ back = <<>>

\* a caller dereferences one of the statics (validation reads the valid set,
\* decoding the forward array, encoding the inverse map)
Access(t) ==
    /\ thr[t].stack = <<>> /\ IsNone(thr[t].ref) /\ thr[t].left > 0
    /\ \E k \in Kinds :
          thr' = [thr EXCEPT ![t].stack = <<Frame(k, "force")>>,
                             ![t].left = @ - 1]
    /\ UNCHANGED <<once, cells, builds, seen>>

\* the dereference finds the cell uninitialised and enters the initialiser
Acquire(t) ==
    /\ Running(t, "force")
    /\ once[Top(t).cell] = "incomplete"
    /\ once' = [once EXCEPT ![Top(t).cell] = "running"]
    /\ builds' = [builds EXCEPT ![Top(t).cell] = @ + 1]
    /\ thr' = SetTop(t, [Top(t) EXCEPT !.phase = "init"])
    /\ UNCHANGED <<cells, seen>>

\* the initialiser dereferences the static it is built from, if any
Deref(t) ==
    /\ Running(t, "init")
    /\ IF IsNone(Depends(Top(t).cell))
       THEN thr' = SetTop(t, [Top(t) EXCEPT !.phase = "build"])
       ELSE thr' = [thr EXCEPT ![t].stack =
                       Append(SetTop(t, [Top(t) EXCEPT !.phase = "build"])[t].stack,
                              Frame(Depends(Top(t).cell)[1], "force"))]
    /\ UNCHANGED <<once, cells, builds, seen>>

\* one step of the initialiser's loop over its local value
Step(t) ==
    /\ Running(t, "build")
    /\ Top(t).n < BuildSteps
    /\ thr' = SetTop(t, [Top(t) EXCEPT !.n = @ + 1])
    /\ UNCHANGED <<once, cells, builds, seen>>

\* the initialiser returns its value: it is stored and the cell is complete
Publish(t) ==
    /\ Running(t, "build")
    /\ Top(t).n = BuildSteps
    /\ cells' = [cells EXCEPT ![Top(t).cell] = Filled(Top(t).n)]
    /\ once' = [once EXCEPT ![Top(t).cell] = "complete"]
    /\ thr' = SetTop(t, [Top(t) EXCEPT !.phase = "force"])
    /\ UNCHANGED <<builds, seen>>

\* the dereference finds the cell complete and returns the reference: to the
\* initialiser that asked for it, which reads the table, or to the caller
Return(t) ==
    /\ Running(t, "force")
    /\ once[Top(t).cell] = "complete"
    /\ LET k == Top(t).cell
           rest == SubSeq(thr[t].stack, 1, Len(thr[t].stack) - 1)
       IN  IF rest = <<>>
           THEN thr' = [thr EXCEPT ![t].stack = <<>>, ![t].ref = Some(k)]
           ELSE thr' = [thr EXCEPT ![t].stack =
                           [rest EXCEPT ![Len(rest)].src = Some(cells[k])]]
    /\ UNCHANGED <<once, cells, builds, seen>>

\* the caller reads the table through the reference
Read(t) ==
    /\ IsSome(thr[t].ref)
    /\ seen' = [seen EXCEPT ![t] = Some(cells[thr[t].ref[1]])]
    /\ thr' = [thr EXCEPT ![t].ref = None]
    /\ UNCHANGED <<once, cells, builds>>

ThreadNext(t) ==
    /\ \/ Access(t) \/ Acquire(t) \/ Deref(t) \/ Step(t) \/ Publish(t) \/ Return(t)
       \/ Read(t)
    /\ UNCHANGED <<pc, raw, ctx, pack, err, panicked, encCtx, out, pack2, err2,
                   val, code, tbl, back>>

NextLazy == \E t \in Threads : ThreadNext(t)

SpecLazy == InitLazy /\ [][NextLazy]_vars

\* a thread that can take a step eventually takes one
SpecLazyFair == SpecLazy /\ \A t \in Threads : WF_vars(ThreadNext(t))

\* a thread blocked on a cell whose initialiser is running
Blocked(t) == Running(t, "force") /\ once[Top(t).cell] = "running"

\* every access has returned and been read
AllReturned ==
    \A t \in Threads : thr[t].stack = <<>> /\ IsNone(thr[t].ref) /\ thr[t].left = 0

BuiltOnceAndWhole ==
    /\ \A k \in Kinds : builds[k] <= 1
    /\ \A k \in Kinds : once[k] = "complete" => cells[k] = TableSize(tbl)
    /\ \A t \in Threads : IsSome(seen[t]) => seen[t][1] = TableSize(tbl)
    /\ \A t \in Threads : \A i \in 1..Len(thr[t].stack) :
          IsSome(thr[t].stack[i].src) => thr[t].stack[i].src[1] = TableSize(tbl)

NeverModified ==
    \A k \in Kinds :
        once[k] = "complete" => once'[k] = "complete" /\ cells'[k] = cells[k]

\* C11: each table's initialiser is entered at most once however the first
\* accesses interleave; every value read through a reference, by a caller or by
\* an initialiser reading the table it is built from, is the completely built
\* table; a complete cell never changes again; and every access, including the
\* nested chain valid set -> inverse map -> forward array, eventually returns.
C11_OnceWholeImmutableLive ==
    /\ []BuiltOnceAndWhole
    /\ [][NeverModified]_vars
    /\ <>[]AllReturned

\* one thread is filling the inverse map, having forced the forward array from
\* inside the initialiser, and the other thread arrived meanwhile and is blocked
C11_Witness ==
    /\ pc = "lazy"
    /\ \E t, u \in Threads :
          /\ t # u
          /\ Running(t, "build") /\ Top(t).cell = "inverse"
          /\ Top(t).n > 0 /\ Top(t).n < BuildSteps
          /\ IsSome(Top(t).src)
          /\ Len(thr[t].stack) = 2
          /\ builds["forward"] = 1 /\ once["forward"] = "complete"
          /\ Blocked(u) /\ Top(u).cell = "inverse"

-----------------------------------------------------------------------------
(* The AAUX source pack as a caller drives it: decode and validate a         *)
(* payload, or validate a value built in memory, then encode.                *)

SourcePC1Samples == {206, 0, 255, 27, 156, 48, 113}

SourcePC2Samples == {48, 63, 80, 0}

SourcePC3Samples == {192, 224, 32}

SourcePC4Samples == {209, 200, 192, 249}

SourcePayloads ==
    {<<b1, b2, b3, b4>> : b1 \in SourcePC1Samples, b2 \in SourcePC2Samples,
                          b3 \in SourcePC3Samples, b4 \in SourcePC4Samples}

SourceValues ==
    {[audio_sample_rate |-> sr, quantization |-> 1, audio_frame_size |-> fs,
      locked_mode |-> 1, stereo_mode |-> 0, audio_block_channel_count |-> ch,
      audio_mode |-> 0, audio_block_pairing |-> 1, multi_language |-> FALSE,
      source_type |-> 0, field_count |-> fc, emphasis_on |-> FALSE,
      emphasis_time_constant |-> 1, reserved |-> 3] :
        sr \in {32000, 44100, 48000, 14000},
        fs \in {1067, 1052, 1081, 1264, 1297, 1580, 1742},
        ch \in {2, 1, 3, 0},
        fc \in {60, 50, 25}}

InitSource ==
    /\ \/ pc = "payload" /\ raw \in SourcePayloads /\ val = <<>>
       \/ pc = "value" /\ val \in SourceValues /\ raw = <<>>
    /\ ctx \in PackContexts
    /\ pack = <<>> /\ err = None /\ panicked = FALSE
    /\ encCtx = ctx /\ out = <<>> /\ pack2 = <<>> /\ err2 = None
    /\ code = 0 /\ tbl = "" /\ back = <<>>
    /\ LazyIdle

\* ValidPack::<AAUXSource>::try_from_raw(&raw, &ctx)
SourceFromRaw ==
    /\ pc = "payload"
    /\ \E res \in {ValidPack_AAUXSource_try_from_raw(raw, ctx)} :
           IF res.ok
           THEN pack' = res.val /\ err' = None /\ pc' = "valid"
           ELSE pack' = <<>> /\ err' = Some(res.err) /\ pc' = "rejected"
    /\ UNCHANGED <<raw, ctx, panicked, encCtx, out, pack2, err2, val, code, tbl, back,
                   lazyVars>>

\* Unvalidated::new(value).validate_with(&ctx)
SourceValidate ==
    /\ pc = "value"
    /\ \E res \in {AAUXSource_validate_with(val, ctx)} :
           IF res.ok
           THEN pack' = res.val /\ err' = None /\ pc' = "valid"
           ELSE pack' = <<>> /\ err' = Some(res.err) /\ pc' = "rejected"
    /\ UNCHANGED <<raw, ctx, panicked, encCtx, out, pack2, err2, val, code, tbl, back,
                   lazyVars>>

\* valid.to_raw(&c), for any context c the caller passes
SourceToRaw ==
    /\ pc = "valid"
    /\ \E c \in PackContexts :
        \E res \in {AAUXSource_to_raw(pack, c)} :
           /\ encCtx' = c
           /\ out' = res
           /\ panicked' = res.panic
    /\ pc' = "encoded"
    /\ UNCHANGED <<raw, ctx, pack, err, pack2, err2, val, code, tbl, back, lazyVars>>

NextSource == SourceFromRaw \/ SourceValidate \/ SourceToRaw

SpecSource == InitSource /\ [][NextSource]_vars

\* the fields of an AAUX source value whose own rule rejects it under context c
ViolatedSourceFields(v, c) ==
    {f \in {"audio_sample_rate", "audio_frame_size", "audio_block_channel_count",
            "field_count"} :
        CASE f = "audio_sample_rate" ->
                 ~check_audio_sample_rate(v.audio_sample_rate, c).ok
          [] f = "audio_frame_size" ->
                 ~check_audio_frame_size(v, v.audio_frame_size, c).ok
          [] f = "audio_block_channel_count" -> v.audio_block_channel_count \notin 1..2
          [] f = "field_count" -> ~check_field_count(v.field_count, c).ok}

\* the validation of an in-memory value has returned
SourceValidated == val # <<>> /\ pc \in {"valid", "rejected", "encoded"}

ReportOf(e) == IF IsSome(e) /\ e[1].kind = "PackValidation" THEN e[1].report ELSE <<>>

\* C12: validating a value yields one report with exactly one entry for each field
\* whose rule it violates, however many there are, and validation succeeds
\* exactly when no field violates its rule.
C12_AggregatedReport ==
    SourceValidated =>
        /\ Len(ReportOf(err)) = Cardinality(ViolatedSourceFields(val, ctx))
        /\ {ReportOf(err)[i].path : i \in 1..Len(ReportOf(err))}
               = {<<f>> : f \in ViolatedSourceFields(val, ctx)}
        /\ IsNone(err) <=> ViolatedSourceFields(val, ctx) = {}
        /\ IsSome(err) => err[1].kind = "PackValidation"

\* a value violating three rules at once was rejected with three entries
C12_Witness ==
    /\ SourceValidated
    /\ pc = "rejected"
    /\ val.audio_block_channel_count = 3
    /\ val.field_count = 25
    /\ val.audio_sample_rate = 32000 /\ val.audio_frame_size = 1052
    /\ Len(ReportOf(err)) = 3

\* the field count the context's system expects
ExpectedFieldCount(c) == IF system(c.file_info) = Sys525_60 THEN 60 ELSE 50

FieldCountEntries(e) ==
    {ReportOf(e)[i] : i \in {j \in 1..Len(ReportOf(e)) :
                                 ReportOf(e)[j].path = <<"field_count">>}}

-----------------------------------------------------------------------------
(* Field rules, read off the report of validating an in-memory value         *)

\* a pack value has been through validate_with
ValueValidated ==
    /\ pc \in {"pack", "rejected", "encoded", "redecoded"}
    /\ val # <<>>
    /\ val.variant \in {TypeList[i].name : i \in 1..Len(TypeList)}

\* the report names the field at this path
Reported(path) == \E i \in 1..Len(ReportOf(err)) : ReportOf(err)[i] = path

ValueDataType == TypeEntry(<<val.variant>>).data_type

\* the time of the value under validation, absent when the pack carries none
TimeOfValue ==
    IF ValueDataType = "TitleTimecode"
    THEN Some([val.data.timecode.time EXCEPT !.frame = Some(@)])
    ELSE val.data.time

FramePathOfValue ==
    IF ValueDataType = "TitleTimecode" THEN <<"timecode", "time", "frame">>
    ELSE <<"time", "frame">>

C15_YearRange ==
    (ValueValidated /\ ValueDataType = "RecordingDate") =>
        /\ Reported(<<"date">>) <=>
              IsSome(val.data.date) /\ val.data.date[1].year \notin 1975..2074
        /\ (IsSome(val.data.date) /\ val.data.date[1].year <= 1974) =>
              check_date(val.data.date).err
                  = "the year is before the minimum allowed year 1975"
        /\ (IsSome(val.data.date) /\ val.data.date[1].year >= 2075) =>
              check_date(val.data.date).err
                  = "the year is after the maximum allowed year 2074"
        /\ Reported(<<"date">>) => pc = "rejected"

\* a date in 1974 was rejected for the date alone
C15_Witness ==
    /\ ValueValidated /\ pc = "rejected"
    /\ ValueDataType = "RecordingDate"
    /\ IsSome(val.data.date) /\ val.data.date[1].year = 1974
    /\ ReportOf(err) = <<<<"date">>>>

\* C16: a time zone offset is accepted exactly when it is absent or a
\* non-negative multiple of 1800 seconds, and the daylight saving time value
\* exactly when it is present together with the time zone or absent together
\* with it.
C16_TimezoneAndDst ==
    (ValueValidated /\ ValueDataType = "RecordingDate") =>
        /\ ~Reported(<<"timezone">>) <=>
              \/ IsNone(val.data.timezone)
              \/ \E k \in 0..47 : val.data.timezone[1] = 1800 * k
        /\ ~Reported(<<"daylight_saving_time">>) <=>
              (IsSome(val.data.daylight_saving_time) <=> IsSome(val.data.timezone))

\* an offset of -3600 seconds with a daylight saving time value was rejected for
\* the time zone alone
C16_Witness ==
    /\ ValueValidated /\ pc = "rejected"
    /\ ValueDataType = "RecordingDate"
    /\ val.data.timezone = Some(-3600)
    /\ IsSome(val.data.daylight_saving_time)
    /\ ReportOf(err) = <<<<"timezone">>>>

\* C17: a title timecode is rejected for its blank flag exactly when the flag
\* differs from the timecode's colour frame flag; so for a validated title
\* timecode bit 7 of the first encoded payload byte equals the blank flag, and
\* decoding the encoded bytes returns the same blank flag.
C17_BlankFlagIsColorFrame ==
    (ValueValidated /\ ValueDataType = "TitleTimecode") =>
        /\ Reported(<<"blank_flag">>) <=>
              val.data.blank_flag # val.data.timecode.color_frame
        /\ Reported(<<"blank_flag">>) => pc = "rejected"
        /\ (pc \in {"encoded", "redecoded"} /\ ~out.panic) =>
              out.bytes[2] \div 128 = val.data.blank_flag
        /\ pc = "redecoded" =>
              /\ pack2.variant = "TitleTimecode"
              /\ pack2.data.blank_flag = val.data.blank_flag

\* a title timecode with blank flag 1 went through encode and decode
C17_Witness ==
    /\ ValueValidated /\ pc = "redecoded"
    /\ ValueDataType = "TitleTimecode"
    /\ val.data.blank_flag = 1
    /\ out.bytes[2] \div 128 = 1
    /\ pack2.data.blank_flag = 1

-----------------------------------------------------------------------------
(* Binary-coded decimal conversion on its own: raw holds the digits, most    *)
(* significant first, and code the all-ones value of the leading digit's     *)
(* type (u1 to u4); the other digits are u4.                                 *)

\* bit widths of the leading digit's type
DigitWidths == 1..4

InitBcd ==
    /\ pc = "digits"
    /\ \E w \in DigitWidths :
          /\ code = Pow2(w) - 1
          /\ \/ raw \in {<<t, u>> : t \in 0..(Pow2(w) - 1), u \in 0..15}
             \/ raw \in {<<h, t, u>> : h \in 0..(Pow2(w) - 1), t \in 0..15, u \in 0..15}
    /\ val = <<>>
    /\ ctx = NTSC /\ pack = <<>> /\ err = None /\ panicked = FALSE
    /\ encCtx = NTSC /\ out = <<>> /\ pack2 = <<>> /\ err2 = None
    /\ tbl = "" /\ back = <<>>
    /\ LazyIdle

\* from_bcd_tens(tens, units)
FromBcdTens ==
    /\ pc = "digits" /\ Len(raw) = 2
    /\ val' = from_bcd_tens(raw[1], code, raw[2])
    /\ pc' = "number"
    /\ UNCHANGED <<raw, ctx, pack, err, panicked, encCtx, out, pack2, err2, code, tbl,
                   back, lazyVars>>

\* from_bcd_hundreds(hundreds, tens, units)
FromBcdHundreds ==
    /\ pc = "digits" /\ Len(raw) = 3
    /\ val' = from_bcd_hundreds(raw[1], code, raw[2], raw[3])
    /\ pc' = "number"
    /\ UNCHANGED <<raw, ctx, pack, err, panicked, encCtx, out, pack2, err2, code, tbl,
                   back, lazyVars>>

NextBcd == FromBcdTens \/ FromBcdHundreds

SpecBcd == InitBcd /\ [][NextBcd]_vars

\* all digits are the all-ones value of their type
AllDigitsMax == raw[1] = code /\ \A i \in 2..Len(raw) : raw[i] = 15

\* place names of the digits of raw, most significant first
PlaceNames == IF Len(raw) = 2 THEN <<"tens", "units">> ELSE <<"hundreds", "tens", "units">>

\* the digits of raw above 9
DigitsAboveNine == {i \in 1..Len(raw) : raw[i] > 9}

\* the positional value of the digits of raw
PositionalValue ==
    IF Len(raw) = 2 THEN 10 * raw[1] + raw[2]
    ELSE 100 * raw[1] + 10 * raw[2] + raw[3]

\* C18: the conversion returns absent exactly when every digit is the all-ones
\* value of its width; otherwise it fails naming the most significant digit that
\* is above 9, if there is one, and else returns the positional value of the
\* digits.
C18_BcdConversion ==
    pc = "number" =>
        /\ (val.ok /\ IsNone(val.val)) <=> AllDigitsMax
        /\ (~AllDigitsMax /\ DigitsAboveNine # {}) =>
              /\ ~val.ok
              /\ \E i \in DigitsAboveNine :
                    /\ \A j \in DigitsAboveNine : i <= j
                    /\ PlaceNames[i] = "hundreds" =>
                          val.err = "hundreds place value is greater than 9"
                    /\ PlaceNames[i] = "tens" =>
                          val.err = "tens place value is greater than 9"
                    /\ PlaceNames[i] = "units" =>
                          val.err = "units place value is greater than 9"
        /\ (~AllDigitsMax /\ DigitsAboveNine = {}) =>
              val = Ok(Some(PositionalValue))

\* tens 10 and units 12 in four-bit digits failed on the tens place
C18_Witness ==
    /\ pc = "number"
    /\ raw = <<10, 12>> /\ code = 15
    /\ ~val.ok
    /\ val.err = "tens place value is greater than 9"

-----------------------------------------------------------------------------
(* file::Info: validation and check_similar on two validated infos.          *)
(* val holds the pair [self, other]; back is self.check_similar(other) and   *)
(* out is other.check_similar(self).                                         *)

is_supported_video_frame_rate(value) ==
    IF value = Ratio_new(30000, 1001) \/ value = <<25, 1>> THEN Ok(<<>>)
    ELSE Err("Video frame rate is not a supported NTSC/PAL/SECAM rate")

video_duration_validations(info) ==
    IF ~try_video_frame_count(info).ok THEN try_video_frame_count(info)
    ELSE IF ~try_video_frame_size(info).ok THEN try_video_frame_size(info)
    ELSE IF ~try_video_frame_info(info).ok THEN try_video_frame_info(info)
    ELSE IF ~try_system(info).ok THEN try_system(info)
    ELSE Ok(<<>>)

audio_sample_rate_valid(info, sample_rate) ==
    IF IsNone(sample_rate) /\ info.audio_stereo_stream_count >= 1
    THEN Err("Could not detect sample rate for audio streams")
    ELSE IF IsSome(sample_rate) /\ info.audio_stereo_stream_count = 0
    THEN Err("Audio sample rate cannot be provided if there are no audio streams")
    ELSE IF IsSome(sample_rate) /\ sample_rate[1] \notin {32000, 44100, 48000}
    THEN Err("Unsupported audio sample rate")
    ELSE Ok(<<>>)

\* derived Validate of Info
Info_validate(info) ==
    Entry(<<"video_frame_rate">>, is_supported_video_frame_rate(info.video_frame_rate))
    \o Entry(<<"video_duration">>, video_duration_validations(info))
    \o Entry(<<"audio_stereo_stream_count">>, range(info.audio_stereo_stream_count, 0, 2))
    \o Entry(<<"audio_sample_rate">>, audio_sample_rate_valid(info, info.audio_sample_rate))

\* accessors of a validated info; the unwraps cannot fail
video_frame_size(info) == try_video_frame_size(info).val

video_frame_channel_count(info) == try_video_frame_info(info).val[1]

video_frame_dif_sequence_count(info) == try_video_frame_info(info).val[2]

\* a comparison of the file sizes where the frame sizes are meant
check_similar_FileSize(self, other) ==
    IF self.video_frame_rate # other.video_frame_rate
    THEN Err("Video frame rate does not match")
    ELSE IF self.file_size # other.file_size
    THEN Err("Video frame size does not match")
    ELSE IF video_frame_channel_count(self) # video_frame_channel_count(other)
    THEN Err("Video frame channel count does not match")
    ELSE IF video_frame_dif_sequence_count(self) # video_frame_dif_sequence_count(other)
    THEN Err("Video DIF sequence count does not match")
    ELSE IF system(self) # system(other)
    THEN Err("DV system does not match")
    ELSE IF self.audio_stereo_stream_count # other.audio_stereo_stream_count
    THEN Err("Audio stereo stream count does not match")
    ELSE IF self.audio_sample_rate # other.audio_sample_rate
    THEN Err("Audio sample rate does not match")
    ELSE Ok(<<>>)

\* ValidInfoMethods::check_similar
check_similar(self, other) ==
    IF self.video_frame_rate # other.video_frame_rate
    THEN Err("Video frame rate does not match")
    ELSE IF video_frame_size(self) # video_frame_size(other)
    THEN Err("Video frame size does not match")
    ELSE IF video_frame_channel_count(self) # video_frame_channel_count(other)
    THEN Err("Video frame channel count does not match")
    ELSE IF video_frame_dif_sequence_count(self) # video_frame_dif_sequence_count(other)
    THEN Err("Video DIF sequence count does not match")
    ELSE IF system(self) # system(other)
    THEN Err("DV system does not match")
    ELSE IF self.audio_stereo_stream_count # other.audio_stereo_stream_count
    THEN Err("Audio stereo stream count does not match")
    ELSE IF self.audio_sample_rate # other.audio_sample_rate
    THEN Err("Audio sample rate does not match")
    ELSE Ok(<<>>)

\* the longest sample file, in frames
MaxFrames == 3

\* infos as FFmpeg could report them: a size, a supported frame rate, the
\* duration of a whole number of frames at that rate, and the audio streams
InfoSamples ==
    {[file_size |-> sz, video_frame_rate |-> r,
      video_duration |-> Ratio_new(n * r[2], r[1]),
      audio_stereo_stream_count |-> ac, audio_sample_rate |-> sr] :
        sz \in {120000, 144000, 240000, 288000, 360000},
        r \in {<<30000, 1001>>, <<25, 1>>},
        n \in 1..MaxFrames,
        ac \in 0..2,
        sr \in {None, Some(32000), Some(48000)}}

\* the infos that pass validation
ValidInfos == {i \in InfoSamples : Info_validate(i) = <<>>}

InitSimilar ==
    /\ pc = "infos"
    /\ val \in [self : ValidInfos, other : ValidInfos]
    /\ back = <<>> /\ out = <<>>
    /\ raw = <<>> /\ ctx = NTSC /\ pack = <<>> /\ err = None /\ panicked = FALSE
    /\ encCtx = NTSC /\ pack2 = <<>> /\ err2 = None
    /\ code = 0 /\ tbl = ""
    /\ LazyIdle

\* self.check_similar(&other)
CheckSimilar ==
    /\ pc = "infos"
    /\ back' = check_similar(val.self, val.other)
    /\ pc' = "compared"
    /\ UNCHANGED <<raw, ctx, pack, err, panicked, encCtx, out, pack2, err2, val, code,
                   tbl, lazyVars>>

\* other.check_similar(&self)
CheckSimilarSwapped ==
    /\ pc = "compared"
    /\ out' = check_similar(val.other, val.self)
    /\ pc' = "compared_both"
    /\ UNCHANGED <<raw, ctx, pack, err, panicked, encCtx, pack2, err2, val, code, tbl,
                   back, lazyVars>>

NextSimilar == CheckSimilar \/ CheckSimilarSwapped

SpecSimilar == InitSimilar /\ [][NextSimilar]_vars

\* the properties that make up the format of a file, in the order compared,
\* each with the name its mismatch is reported under
FormatOf(info) ==
    << info.video_frame_rate,
       <<info.file_size
             \div ((info.video_duration[1] * info.video_frame_rate[1])
                       \div (info.video_duration[2] * info.video_frame_rate[2]))>>,
       <<video_frame_channel_count(info)>>,
       <<video_frame_dif_sequence_count(info)>>,
       <<system(info)>>,
       <<info.audio_stereo_stream_count>>,
       info.audio_sample_rate >>

FormatNames ==
    << "Video frame rate does not match", "Video frame size does not match",
       "Video frame channel count does not match",
       "Video DIF sequence count does not match", "DV system does not match",
       "Audio stereo stream count does not match", "Audio sample rate does not match" >>

DifferingProperties(a, b) == {k \in 1..7 : FormatOf(a)[k] # FormatOf(b)[k]}

\* C19: check_similar succeeds exactly when the two infos agree on frame rate,
\* frame size, channel count, DIF sequence count, system, audio stream count and
\* audio sample rate, whatever their file sizes and durations; otherwise its
\* error names the first of these, in this order, on which they differ; and the
\* call with the arguments swapped succeeds exactly when this one does.
C19_CheckSimilar ==
    /\ pc \in {"compared", "compared_both"} =>
          /\ back.ok <=> DifferingProperties(val.self, val.other) = {}
          /\ ~back.ok =>
                \E k \in DifferingProperties(val.self, val.other) :
                    /\ \A j \in DifferingProperties(val.self, val.other) : k <= j
                    /\ back.err = FormatNames[k]
    /\ pc = "compared_both" =>
          /\ out.ok = back.ok
          /\ out.err = back.err

\* a one-frame and a three-frame 525-60 file with the same audio are similar
C19_Witness ==
    /\ pc = "compared_both"
    /\ val.self.file_size = 120000 /\ val.other.file_size = 360000
    /\ val.self.video_duration # val.other.video_duration
    /\ back.ok /\ out.ok

-----------------------------------------------------------------------------
\* C20: Pack::to_raw returns five bytes without panicking for every pack that
\* Pack::from_raw produced and every context it is given, also one whose system
\* differs from the system the pack was decoded and validated under.
C20_ToRawNeverPanics ==
    pc = "encoded" => (~out.panic /\ Len(out.bytes) = 5)

-----------------------------------------------------------------------------
(* Encoding a validated value of any pack data type, the source packs        *)
(* included: val holds [data_type, data], pack the validated data.           *)

VAUXSourceValues ==
    [source_code : Optional({"Camera", "LineMUSE", "Line", "Cable", "Tuner",
                             "PrerecordedTape"}),
     tv_channel : Optional({1, 999, 0, 1000}),
     tuner_category : Optional({0, 255}),
     source_type : {0, 31},
     field_count : {60, 50, 25},
     bw_flag : {0, 1},
     color_frames_id : Optional({0, 3})]

EncodeValues ==
    UNION {{[data_type |-> dt, data |-> d] : d \in DataSamples(dt)} :
               dt \in {"TitleTimecode", "RecordingTime", "RecordingDate",
                       "BinaryGroup", "NoInfo"}}
        \cup {[data_type |-> "AAUXSource", data |-> d] : d \in SourceValues}
        \cup {[data_type |-> "VAUXSource", data |-> d] : d \in VAUXSourceValues}

InitEncode ==
    /\ pc = "unvalidated"
    /\ val \in EncodeValues
    /\ ctx \in PackContexts
    /\ raw = <<>> /\ pack = <<>> /\ err = None /\ panicked = FALSE
    /\ encCtx = ctx /\ out = <<>> /\ pack2 = <<>> /\ err2 = None
    /\ code = 0 /\ tbl = "" /\ back = <<>>
    /\ LazyIdle

\* Unvalidated::new(value).validate_with(&ctx)
ValidateValue ==
    /\ pc = "unvalidated"
    /\ \E res \in {CASE val.data_type = "AAUXSource" ->
                            AAUXSource_validate_with(val.data, ctx)
                     [] val.data_type = "VAUXSource" ->
                            VAUXSource_validate_with(val.data, ctx)
                     [] OTHER -> validate_with(val.data_type, val.data, ctx)} :
           IF res.ok
           THEN pack' = res.val /\ err' = None /\ pc' = "validated"
           ELSE pack' = <<>> /\ err' = Some(res.err) /\ pc' = "rejected"
    /\ UNCHANGED <<raw, ctx, panicked, encCtx, out, pack2, err2, val, code, tbl, back,
                   lazyVars>>

\* valid_pack.to_raw(&c), for any context c the caller passes
EncodeValue ==
    /\ pc = "validated"
    /\ \E c \in PackContexts :
        \E res \in {CASE val.data_type = "AAUXSource" -> AAUXSource_to_raw(pack, c)
                      [] val.data_type = "VAUXSource" -> VAUXSource_to_raw(pack, c)
                      [] OTHER -> ValidPack_to_raw(val.data_type, pack, c)} :
           /\ encCtx' = c
           /\ out' = res
           /\ panicked' = res.panic
    /\ pc' = "encoded"
    /\ UNCHANGED <<raw, ctx, pack, err, pack2, err2, val, code, tbl, back, lazyVars>>

NextEncode == ValidateValue \/ EncodeValue

SpecEncode == InitEncode /\ [][NextEncode]_vars

EncodedUnderValidationContext == pc = "encoded" /\ encCtx = ctx

-----------------------------------------------------------------------------
(* C22 *)

RedecodedUnderSameContext == pc = "redecoded" /\ encCtx = ctx

\* C22: decoding the bytes that encoding a decoded record produced, all under one
\* context, returns the pack of the first decode, with an error exactly when the
\* first decode had one; encoding that pack again returns the same bytes.
C22_DecodeStableUnderReencoding ==
    RedecodedUnderSameContext =>
        /\ pack2 = pack
        /\ IsSome(err2) <=> IsSome(err)
        /\ Pack_to_raw(pack2, ctx) = out

\* a typed pack whose encoding differs from the record it was decoded from was
\* decoded again
C22_Witness ==
    /\ RedecodedUnderSameContext
    /\ pack.variant \notin {"Invalid", "Unknown", "NoInfo"}
    /\ out.bytes # raw
    /\ pack2 = pack

-----------------------------------------------------------------------------
(* C23 *)

NoInfoHeader == 255

NoInfoRecord == <<255, 255, 255, 255, 255>>

\* C23: a record whose header is FF decodes to the NoInfo pack with no error,
\* whatever its payload; a NoInfo pack encodes to FF FF FF FF FF under every
\* context, so a payload other than FF FF FF FF is not written back.
C23_NoInfoDiscardsPayload ==
    /\ (pc # "start" /\ raw[1] = NoInfoHeader) =>
          /\ pack = TypedPack("NoInfo", [no_info |-> TRUE])
          /\ IsNone(err)
    /\ (pc \in {"encoded", "redecoded"} /\ pack.variant = "NoInfo") =>
          /\ out = Bytes(NoInfoRecord)
          /\ Payload(raw) # Payload(NoInfoRecord) => out.bytes # raw

\* a record with header FF and a payload that is not all ones was decoded and
\* encoded under the other system
C23_Witness ==
    /\ pc = "encoded"
    /\ raw[1] = NoInfoHeader
    /\ raw[2] = 0 /\ raw[5] = 35
    /\ encCtx # ctx
    /\ out.bytes = NoInfoRecord

-----------------------------------------------------------------------------
(* pack::time: the string form of a time value. A string is a sequence of    *)
(* one-character strings. val holds [frame_type, time]; raw the serialized   *)
(* string; pack2 and err2 the deserialized value or the error.               *)

DigitChars == <<"0", "1", "2", "3", "4", "5", "6", "7", "8", "9">>

IsDigit(ch) == \E d \in 1..10 : DigitChars[d] = ch

RECURSIVE DecimalDigits(_)
\* the decimal digits of n, without padding
DecimalDigits(n) ==
    IF n < 10 THEN <<DigitChars[n + 1]>>
    ELSE DecimalDigits(n \div 10) \o <<DigitChars[(n % 10) + 1]>>

\* format!("{:02}", n)
format_02(n) == IF n < 10 THEN <<"0">> \o DecimalDigits(n) ELSE DecimalDigits(n)

\* impl Serialize for TimeValueWithOptionalFrame
TimeValueWithOptionalFrame_serialize(v) ==
    format_02(v.hour) \o <<":">> \o format_02(v.minute) \o <<":">> \o format_02(v.second)
        \o (IF IsNone(v.frame) THEN <<>>
            ELSE IF v.drop_frame THEN <<";">> \o format_02(v.frame[1])
            ELSE <<":">> \o format_02(v.frame[1]))

\* impl Serialize for TimeValueWithRequiredFrame
TimeValueWithRequiredFrame_serialize(v) ==
    TimeValueWithOptionalFrame_serialize(
        [hour |-> v.hour, minute |-> v.minute, second |-> v.second,
         drop_frame |-> v.drop_frame, frame |-> Some(v.frame)])

RECURSIVE DecimalValue(_)
DecimalValue(s) ==
    IF s = <<>> THEN 0
    ELSE 10 * DecimalValue(SubSeq(s, 1, Len(s) - 1))
             + (CHOOSE d \in 0..9 : DigitChars[d + 1] = s[Len(s)])

\* str::parse::<u8>() on a run of digits
parse_u8(s) ==
    IF s = <<>> \/ \E i \in 1..Len(s) : ~IsDigit(s[i])
    THEN Err("invalid digit found in string")
    ELSE IF Len(s) > 3 \/ DecimalValue(s) > 255
    THEN Err("number too large to fit in target type")
    ELSE Ok(DecimalValue(s))

RECURSIVE TimeFields(_)
\* the runs between the separators : and ;
TimeFields(s) ==
    IF \A i \in 1..Len(s) : s[i] \notin {":", ";"} THEN <<s>>
    ELSE LET i == CHOOSE k \in 1..Len(s) :
                      /\ s[k] \in {":", ";"}
                      /\ \A j \in 1..(k - 1) : s[j] \notin {":", ";"}
         IN  <<SubSeq(s, 1, i - 1)>> \o TimeFields(SubSeq(s, i + 1, Len(s)))

RECURSIVE TimeSeparators(_)
TimeSeparators(s) ==
    IF s = <<>> THEN <<>>
    ELSE (IF s[1] \in {":", ";"} THEN <<s[1]>> ELSE <<>>)
             \o TimeSeparators(SubSeq(s, 2, Len(s)))

\* TIME_RE.captures: None, or the named groups of
\* ^(\d+):(\d+):(\d+)(([:;])(\d+))?$
TIME_RE_captures(s) ==
    LET f == TimeFields(s)
        sep == TimeSeparators(s)
    IN  IF /\ Len(f) \in {3, 4}
           /\ \A i \in 1..Len(f) :
                  f[i] # <<>> /\ \A j \in 1..Len(f[i]) : IsDigit(f[i][j])
           /\ sep[1] = ":" /\ sep[2] = ":"
        THEN Some([hour |-> f[1], minute |-> f[2], second |-> f[3],
                   frame_separator |-> IF Len(f) = 4 THEN Some(sep[3]) ELSE None,
                   frame |-> IF Len(f) = 4 THEN Some(f[4]) ELSE None])
        ELSE None

\* TimeValueWithOptionalFrameVisitor::visit_str
visit_str(s) ==
    The({
        IF IsNone(capture) THEN Err("invalid value: a time with optional frame number")
        ELSE The({
            IF ~p[1].ok THEN p[1] ELSE IF ~p[2].ok THEN p[2] ELSE IF ~p[3].ok THEN p[3]
            ELSE IF ~p[4].ok THEN p[4]
            ELSE Ok([hour |-> p[1].val, minute |-> p[2].val, second |-> p[3].val,
                     drop_frame |->
                         CASE capture[1].frame_separator = Some(";") -> TRUE
                           [] capture[1].frame_separator = Some(":") -> FALSE
                           [] OTHER -> TRUE,
                     frame |-> IF IsNone(capture[1].frame) THEN None
                               ELSE Some(p[4].val)])
            : p \in {<<parse_u8(capture[1].hour), parse_u8(capture[1].minute),
                       parse_u8(capture[1].second),
                       IF IsNone(capture[1].frame) THEN Ok(0)
                       ELSE parse_u8(capture[1].frame[1])>>}})
        : capture \in {TIME_RE_captures(s)}})

\* impl Deserialize for TimeValueWithRequiredFrame
TimeValueWithRequiredFrame_deserialize(s) ==
    The({
        IF ~t.ok THEN t
        ELSE IF IsNone(t.val.frame) THEN Err("input is missing a frame number")
        ELSE Ok([hour |-> t.val.hour, minute |-> t.val.minute, second |-> t.val.second,
                 drop_frame |-> t.val.drop_frame, frame |-> t.val.frame[1]])
        : t \in {visit_str(s)}})

OptionalFrameSerdeValues ==
    {[frame_type |-> "optional", time |-> t] : t \in TimeValueWithOptionalFrameSamples}

RequiredFrameSerdeValues ==
    {[frame_type |-> "required", time |-> t] : t \in TimeValueWithRequiredFrameSamples}

InitSerde ==
    /\ pc = "time"
    /\ \/ val \in OptionalFrameSerdeValues
       \/ val \in RequiredFrameSerdeValues
    /\ ctx = NTSC /\ encCtx = NTSC
    /\ raw = <<>> /\ pack = <<>> /\ err = None /\ panicked = FALSE
    /\ out = <<>> /\ pack2 = <<>> /\ err2 = None
    /\ code = 0 /\ tbl = "" /\ back = <<>>
    /\ LazyIdle

\* value.serialize(serializer): the string handed to serialize_str
Serialize ==
    /\ pc = "time"
    /\ raw' = IF val.frame_type = "optional"
              THEN TimeValueWithOptionalFrame_serialize(val.time)
              ELSE TimeValueWithRequiredFrame_serialize(val.time)
    /\ pc' = "string"
    /\ UNCHANGED <<ctx, pack, err, panicked, encCtx, out, pack2, err2, val, code, tbl,
                   back, lazyVars>>

\* T::deserialize(deserializer) on that string
Deserialize ==
    /\ pc = "string"
    /\ \E res \in {IF val.frame_type = "optional" THEN visit_str(raw)
                   ELSE TimeValueWithRequiredFrame_deserialize(raw)} :
           IF res.ok
           THEN pack2' = res.val /\ err2' = None
           ELSE pack2' = <<>> /\ err2' = Some(res.err)
    /\ pc' = "deserialized"
    /\ UNCHANGED <<raw, ctx, pack, err, panicked, encCtx, out, val, code, tbl, back,
                   lazyVars>>

NextSerde == Serialize \/ Deserialize

SpecSerde == InitSerde /\ [][NextSerde]_vars

\* C24: deserializing the string a time value serializes to returns the value,
\* with or without a frame number and with drop_frame set or clear.
C24_SerdeRoundTrip ==
    pc = "deserialized" => (IsNone(err2) /\ pack2 = val.time)

-----------------------------------------------------------------------------
(* pack::aaux_source_control and pack::vaux_source_control                   *)

\* From<RawEnum> for Option<Enum> of optional_enum!: the NoInfo code is None
OptionalEnum(bits, no_info) == IF bits = no_info THEN None ELSE Some(bits)

\* From<Option<Enum>> for RawEnum of optional_enum!
RawOptionalEnum(v, no_info) == IF IsNone(v) THEN no_info ELSE v[1]

BoolBit(b) == IF b THEN 1 ELSE 0

\* check_genre_category
check_genre_category(genre_category) ==
    IF genre_category = Some(127)
    THEN Err(<<"instead of specifying Some(0x7F), use None to indicate no information">>)
    ELSE Ok(<<>>)

\* check_playback_speed: a present speed is a key of the inverse map
check_playback_speed(playback_speed) ==
    IF IsNone(playback_speed) \/ IsSome(InverseLookup("playback_speed", playback_speed))
    THEN Ok(<<>>)
    ELSE Err(<<"playback speed not supported", playback_speed[1]>>)

\* derived Validate of AAUXSourceControl
AAUXSourceControl_validate(v, c, path) ==
    EntryWithMessage(path \o <<"genre_category">>,
                     check_genre_category(v.genre_category))
    \o EntryWithMessage(path \o <<"playback_speed">>,
                        check_playback_speed(v.playback_speed))

\* PackData::try_from_raw for AAUXSourceControl
AAUXSourceControl_try_from_raw(p, c) ==
    Ok([copy_protection |-> Bits(p, 6, 7),
        source_situation |-> OptionalEnum(Bits(p, 0, 1), 3),
        input_source |-> OptionalEnum(Bits(p, 4, 5), 3),
        compression_count |-> OptionalEnum(Bits(p, 2, 3), 3),
        recording_start_point |-> Bit(p, 15) = 0,
        recording_end_point |-> Bit(p, 14) = 0,
        recording_mode |-> Bits(p, 11, 13),
        insert_channel |-> OptionalEnum(Bits(p, 8, 10), 7),
        genre_category |-> IF Bits(p, 24, 30) = 127 THEN None
                           ELSE Some(Bits(p, 24, 30)),
        direction |-> Bit(p, 23),
        playback_speed |-> ForwardLookup("playback_speed", Bits(p, 16, 22)),
        reserved |-> Bit(p, 31)])

\* ValidPackDataTrait::to_raw for AAUXSourceControl; indexing the inverse map
\* with a speed that is not a key panics
AAUXSourceControl_to_raw(v, c) ==
    The({
        IF IsNone(speed) THEN Panic
        ELSE Bytes(<< RawOptionalEnum(v.source_situation, 3)
                          + 4 * RawOptionalEnum(v.compression_count, 3)
                          + 16 * RawOptionalEnum(v.input_source, 3)
                          + 64 * v.copy_protection,
                      RawOptionalEnum(v.insert_channel, 7) + 8 * v.recording_mode
                          + 64 * BoolBit(~v.recording_end_point)
                          + 128 * BoolBit(~v.recording_start_point),
                      speed[1] + 128 * v.direction,
                      (IF IsSome(v.genre_category) THEN v.genre_category[1] ELSE 127)
                          + 128 * v.reserved >>)
        : speed \in {InverseLookup("playback_speed", v.playback_speed)}})

\* derived Validate of VAUXSourceControl
VAUXSourceControl_validate(v, c, path) ==
    EntryWithMessage(path \o <<"first_second">>,
                     range_with_message(v.first_second, 1, 2))
    \o EntryWithMessage(path \o <<"genre_category">>,
                        check_genre_category(v.genre_category))

\* PackData::try_from_raw for VAUXSourceControl
VAUXSourceControl_try_from_raw(p, c) ==
    Ok([broadcast_system |-> Bits(p, 16, 17),
        display_mode |-> Bits(p, 8, 10),
        frame_field |-> Bit(p, 23),
        first_second |-> IF Bit(p, 22) = 0 THEN 2 ELSE 1,
        frame_change |-> Bit(p, 21),
        interlaced |-> Bit(p, 20) = 1,
        still_field_picture |-> Bit(p, 19),
        still_camera_picture |-> Bit(p, 18) = 0,
        copy_protection |-> Bits(p, 6, 7),
        source_situation |-> OptionalEnum(Bits(p, 0, 1), 3),
        input_source |-> OptionalEnum(Bits(p, 4, 5), 3),
        compression_count |-> OptionalEnum(Bits(p, 2, 3), 3),
        recording_start_point |-> Bit(p, 15) = 0,
        recording_mode |-> Bits(p, 12, 13),
        genre_category |-> IF Bits(p, 24, 30) = 127 THEN None
                           ELSE Some(Bits(p, 24, 30)),
        reserved |-> Bit(p, 11) + 2 * Bit(p, 14) + 4 * Bit(p, 31)])

\* ValidPackDataTrait::to_raw for VAUXSourceControl
VAUXSourceControl_to_raw(v, c) ==
    IF v.first_second \notin {1, 2} THEN Panic
    ELSE Bytes(<< RawOptionalEnum(v.source_situation, 3)
                      + 4 * RawOptionalEnum(v.compression_count, 3)
                      + 16 * RawOptionalEnum(v.input_source, 3)
                      + 64 * v.copy_protection,
                  v.display_mode + 8 * (v.reserved % 2) + 16 * v.recording_mode
                      + 64 * ((v.reserved \div 2) % 2)
                      + 128 * BoolBit(~v.recording_start_point),
                  v.broadcast_system + 4 * BoolBit(~v.still_camera_picture)
                      + 8 * v.still_field_picture + 16 * BoolBit(v.interlaced)
                      + 32 * v.frame_change
                      + 64 * (IF v.first_second = 2 THEN 0 ELSE 1)
                      + 128 * v.frame_field,
                  (IF IsSome(v.genre_category) THEN v.genre_category[1] ELSE 127)
                      + 128 * (v.reserved \div 4) >>)

\* the payloads drawn: every byte at PC3, where the speed code of the AAUX pack
\* lies, and samples elsewhere
ControlPC1Samples == {255, 0, 27, 228}

ControlPC2Samples == {255, 0, 85}

ControlPC4Samples == {255, 127, 0, 254}

ControlPayloads ==
    {<<b1, b2, b3, b4>> : b1 \in ControlPC1Samples, b2 \in ControlPC2Samples,
                          b3 \in 0..255, b4 \in ControlPC4Samples}

ControlDataTypes == {"BinaryGroup", "AAUXSourceControl", "VAUXSourceControl"}

InitControl ==
    /\ pc = "payload"
    /\ tbl \in ControlDataTypes
    /\ raw \in ControlPayloads
    /\ ctx \in PackContexts
    /\ pack = <<>> /\ err = None /\ panicked = FALSE
    /\ encCtx = ctx /\ out = <<>> /\ pack2 = <<>> /\ err2 = None
    /\ val = <<>> /\ code = 0 /\ back = <<>>
    /\ LazyIdle

\* ValidPack::<T>::try_from_raw(&raw, &ctx): decode, then validate
ControlFromRaw ==
    /\ pc = "payload"
    /\ \E unvalidated \in {CASE tbl = "AAUXSourceControl" ->
                                    AAUXSourceControl_try_from_raw(raw, ctx)
                             [] tbl = "VAUXSourceControl" ->
                                    VAUXSourceControl_try_from_raw(raw, ctx)
                             [] OTHER -> BinaryGroup_try_from_raw(raw, ctx)} :
        \E report \in {IF ~unvalidated.ok THEN <<>>
                       ELSE CASE tbl = "AAUXSourceControl" ->
                                     AAUXSourceControl_validate(unvalidated.val, ctx, <<>>)
                              [] tbl = "VAUXSourceControl" ->
                                     VAUXSourceControl_validate(unvalidated.val, ctx, <<>>)
                              [] OTHER -> <<>>} :
           IF unvalidated.ok /\ report = <<>>
           THEN pack' = unvalidated.val /\ err' = None /\ pc' = "valid"
           ELSE /\ pack' = <<>> /\ pc' = "rejected"
                /\ err' = Some(IF unvalidated.ok THEN PackValidation(report)
                               ELSE unvalidated.err)
    /\ UNCHANGED <<raw, ctx, panicked, encCtx, out, pack2, err2, val, code, tbl, back,
                   lazyVars>>

\* valid_pack.to_raw(&c), for any context c the caller passes
ControlToRaw ==
    /\ pc = "valid"
    /\ \E c \in PackContexts :
        \E res \in {CASE tbl = "AAUXSourceControl" -> AAUXSourceControl_to_raw(pack, c)
                      [] tbl = "VAUXSourceControl" -> VAUXSourceControl_to_raw(pack, c)
                      [] OTHER -> BinaryGroup_to_raw(pack, c)} :
           /\ encCtx' = c
           /\ out' = res
           /\ panicked' = res.panic
    /\ pc' = "encoded"
    /\ UNCHANGED <<raw, ctx, pack, err, pack2, err2, val, code, tbl, back, lazyVars>>

NextControl == ControlFromRaw \/ ControlToRaw

SpecControl == InitControl /\ [][NextControl]_vars

SpeedCode == raw[3] % 128

GenreCode == raw[4] % 128

\* C25: every payload of a binary-group, AAUX source-control or VAUX
\* source-control pack decodes to a valid pack with no error under either system,
\* and the pack encodes to that payload; no other speed code has the value of the
\* payload's speed code, and the all-ones speed and genre codes, and only they,
\* decode to an absent value.
C25_ControlPayloadsRoundTrip ==
    /\ pc # "payload" => (pc # "rejected" /\ IsNone(err))
    /\ pc = "encoded" => out = Bytes(raw)
    /\ (pc = "valid" /\ tbl = "AAUXSourceControl") =>
          /\ \A s \in 0..127 :
                 ForwardLookup("playback_speed", s) = pack.playback_speed
                     => s = SpeedCode
          /\ IsNone(pack.playback_speed) <=> SpeedCode = 127
    /\ (pc = "valid" /\ tbl # "BinaryGroup") =>
          (IsNone(pack.genre_category) <=> GenreCode = 127)

\* an AAUX source-control payload with the all-ones speed and genre codes was
\* decoded to absent values and encoded back to itself
C25_Witness ==
    /\ pc = "encoded" /\ tbl = "AAUXSourceControl"
    /\ SpeedCode = 127 /\ GenreCode = 127
    /\ IsNone(pack.playback_speed) /\ IsNone(pack.genre_category)
    /\ out.bytes = raw

-----------------------------------------------------------------------------
(* C26 *)

\* the fields of an AAUX source payload, read off its bytes
SizeField == raw[1] % 64

RateCode == (raw[4] \div 8) % 8

ChannelCode == (raw[2] \div 32) % 4

FieldCountBit == (raw[3] \div 32) % 2

RateOfCode(smp) == CASE smp = 0 -> 48000 [] smp = 1 -> 44100 [] smp = 2 -> 32000

\* a payload with a known sample-rate code and channel code went through decode
SourcePayloadDecoded ==
    /\ raw # <<>> /\ pc \in {"valid", "rejected", "encoded"}
    /\ RateCode \in 0..2 /\ ChannelCode \in 0..1

\* <<min, max>> of the context's system and the payload's sample rate
SourcePayloadWindow ==
    allowed_audio_frame_size_range(system(ctx.file_info), RateOfCode(RateCode))[1]

\* C26: for a payload with sample-rate code 0..2 and channel code 0..1, the
\* decoded audio frame size is the minimum of the context's system and the sample
\* rate plus the six-bit size field; the pack is valid exactly when the size field
\* is at most maximum minus minimum and the field-count bit is that of the system,
\* and is otherwise rejected by validation on those fields; a valid pack encodes
\* under the same context to the payload it was decoded from.
C26_SourceFrameSizeWindow ==
    SourcePayloadDecoded =>
        /\ pc # "rejected" <=>
              /\ SizeField <= SourcePayloadWindow[2] - SourcePayloadWindow[1]
              /\ FieldCountBit = 0 <=> system(ctx.file_info) = Sys525_60
        /\ pc # "rejected" =>
              /\ pack.audio_sample_rate = RateOfCode(RateCode)
              /\ pack.audio_frame_size = SourcePayloadWindow[1] + SizeField
              /\ pack.audio_block_channel_count = ChannelCode + 1
        /\ pc = "rejected" =>
              /\ err[1].kind = "PackValidation"
              /\ {ReportOf(err)[i].path : i \in 1..Len(ReportOf(err))} =
                    {<<"audio_frame_size">> :
                         x \in {1} \cap
                               {IF SizeField > SourcePayloadWindow[2]
                                                   - SourcePayloadWindow[1]
                                THEN 1 ELSE 0}}
                    \cup {<<"field_count">> :
                              x \in {1} \cap
                                    {IF (FieldCountBit = 0) #
                                            (system(ctx.file_info) = Sys525_60)
                                     THEN 1 ELSE 0}}
        /\ (pc = "encoded" /\ encCtx = ctx) => out = Bytes(raw)

\* a 32 kHz payload whose size field is the whole width of the 525-60 window was
\* decoded to 1080 samples and encoded back to itself
C26_Witness ==
    /\ SourcePayloadDecoded
    /\ pc = "encoded" /\ encCtx = ctx
    /\ system(ctx.file_info) = Sys525_60
    /\ RateCode = 2 /\ SizeField = 27
    /\ pack.audio_frame_size = 1080
    /\ out.bytes = raw

-----------------------------------------------------------------------------
(* C27 *)

DateRecordDecoded == Decoded /\ raw[1] \in DateHeaders

\* the two BCD digits of the year byte as a number
YearDigits == 10 * (raw[5] \div 16) + (raw[5] % 16)

\* what every RecordingDate returned by the decoder satisfies
DecodedDateShape(v) ==
    /\ IsSome(v.date) =>
          /\ v.date[1].year \in 1975..2074
          /\ v.date[1].year = YearDigits + (IF YearDigits < 75 THEN 2000 ELSE 1900)
    /\ IsSome(v.timezone) =>
          /\ v.timezone[1] >= 0 /\ v.timezone[1] < 24 * 60 * 60
          /\ v.timezone[1] % (30 * 60) = 0
    /\ IsSome(v.daylight_saving_time) <=> IsSome(v.timezone)

\* C27: a recording date that the decoder returns without a decode error has a
\* year in 1975..2074 (two-digit years below 75 in 20yy, the others in 19yy), a
\* timezone that is absent or a non-negative multiple of 30 minutes below 24
\* hours, and a daylight-saving flag exactly when it has a timezone; a decoded
\* date record that fails validation fails on the weekday field alone.
C27_DecodedDateWithinRules ==
    DateRecordDecoded =>
        LET d == RecordingDate_try_from_raw(Payload(raw), ctx)
        IN  /\ d.ok => DecodedDateShape(d.val)
            /\ ~d.ok => (err = Some(d.err) /\ d.err.kind = "Whatever")
            /\ (d.ok /\ IsNone(err)) => (IsTyped(pack) /\ pack.data = d.val)
            /\ (d.ok /\ IsSome(err)) =>
                  /\ err[1].kind = "PackValidation"
                  /\ err[1].report = << <<"weekday">> >>
                  /\ pack.variant = "Invalid"

\* a date of 1975 with a timezone of one hour was decoded, and its weekday code
\* does not match the date
C27_Witness ==
    /\ DateRecordDecoded
    /\ YearDigits = 75
    /\ raw[2] = 65
    /\ IsSome(err) /\ err[1].kind = "PackValidation"
    /\ LET d == RecordingDate_try_from_raw(Payload(raw), ctx)
       IN  /\ d.ok /\ d.val.date[1].year = 1975
           /\ d.val.timezone = Some(3600)
           /\ IsSome(d.val.weekday)

-----------------------------------------------------------------------------
(* C28 *)

\* the system derived from the frame size is the one the frame rate belongs to
SystemAgreesWithFrameRate(info) ==
    /\ system(info) = Sys525_60 <=> info.video_frame_rate = Ratio_new(30000, 1001)
    /\ system(info) = Sys625_50 <=> info.video_frame_rate = <<25, 1>>

\* C28: for every validated file info the derived system is 525-60 exactly when
\* the video frame rate is 30000/1001 and 625-50 exactly when it is 25, so that
\* no validated info has a 10-sequence frame size (120000 or 240000 bytes) at 25
\* frames per second or a 12-sequence frame size (144000 or 288000 bytes) at
\* 30000/1001.
C28_SystemAgreesWithFrameRate ==
    pc \in {"compared", "compared_both"} =>
        /\ Info_validate(val.self) = <<>> /\ Info_validate(val.other) = <<>>
        /\ SystemAgreesWithFrameRate(val.self)
        /\ SystemAgreesWithFrameRate(val.other)
        /\ \A i \in {val.self, val.other} :
              /\ video_frame_dif_sequence_count(i) = 10 =>
                    i.video_frame_rate # <<25, 1>>
              /\ video_frame_dif_sequence_count(i) = 12 =>
                    i.video_frame_rate # Ratio_new(30000, 1001)

=============================================================================
